---- MODULE Spec2Model ----
(***************************************************************************)
(* The real-time audio streaming pipeline of the VIOLIN_MVP client        *)
(* (src/CLIENT_APP_VARIABLES.js, lines 243-757; the older copy in         *)
(* src/CLIENT_AUDIO_STREAM_MASTER.js has the same tick loop, resend       *)
(* buffer and STOP).                                                      *)
(*                                                                         *)
(* JavaScript runs one handler at a time: an action of this module is the *)
(* code that runs between two awaits of one async function.  A call of a  *)
(* native API (recorder, file system) takes its effect when it is issued  *)
(* and its promise settles in a later step; the outcome is kept in the    *)
(* caller's record (res) until then.                                      *)
(***************************************************************************)
EXTENDS Integers, Sequences, FiniteSets, TLC

\* ------------------------------------------------------------ constants
RESEND_BUFFER_SIZE == 128
SEND_SLACK_MS == 15

\* ------------------------------------------------------------ bounds
MaxStarts == 2        \* START calls that pass the guard
MaxStops == 1         \* STOP calls that pass the guard
MaxTicks == 3         \* tick timers armed
MaxEnvEvents == 1     \* inbound ACKs, closes by the peer, failed file reads and
                      \* START / STOP calls that return at the guard, together
MaxPuts == 132        \* puts of the buffer specification
MaxSlices == 18       \* slices of the countdown specification

\* inputs of the session specification
FrameSizes == {250}
StartArgs == {<<0, 60>>, <<1, 240>>}
MissingLists == {<<2, 1>>}
\* base64 text of a captured file: sextets 0..63, 64 stands for '='
FileContents == <<(<<19, 16, 64, 64>>), (<<19, 22, 5, 64>>)>>

\* inputs of the buffer specification: the order in which keys are put
PutPatterns == {"up", "down", "zigzag", "repeat"}

\* inputs of the countdown specification: <<countdownBeats, bpm, FRAME_MS>>
CountdownArgs ==
  {<<4, 60, 250>>, <<0, 60, 250>>, <<1, 60, 250>>, <<1, 200, 250>>,
   <<3, 70, 250>>, <<1, 239, 250>>, <<2, 60, 500>>, <<1, 90, 100>>,
   <<1, 0, 20000>>, <<1, 109, 50>>}

\* ------------------------------------------------------------ helpers
Max(a, b) == IF a >= b THEN a ELSE b

\* Math.round of the quotient n / d of two integers, d > 0 (half rounds up)
RoundDiv(n, d) == (2 * n + d) \div (2 * d)

\* ceil(n / d), d > 0
CeilDiv(n, d) == -((-n) \div d)

RECURSIVE Digits(_)
\* String(n) of a non-negative integer: its decimal digits
Digits(n) == IF n < 10 THEN <<n>> ELSE Digits(n \div 10) \o <<n % 10>>

\* String(frameNo): the decimal text; 45 is the character code of the sign
JsString(n) == IF n < 0 THEN <<45>> \o Digits(-n) ELSE Digits(n)

RECURSIVE B64Chunks(_, _)
\* BASE64_TO_BYTES, the loop body: 4 sextets to 3 bytes, fewer at padding
B64Chunks(b64, i) ==
  IF i > Len(b64) THEN <<>>
  ELSE LET At(j) == IF j <= Len(b64) THEN b64[j] ELSE 0
           Enc(j) == IF At(j) = 64 THEN 0 ELSE At(j)
           chunk == Enc(i) * 262144 + Enc(i + 1) * 4096
                    + (Enc(i + 2) % 64) * 64 + (Enc(i + 3) % 64)
           b1 == <<(chunk \div 65536) % 256>>
           b2 == IF At(i + 2) # 64 THEN <<(chunk \div 256) % 256>> ELSE <<>>
           b3 == IF At(i + 3) # 64 THEN <<chunk % 256>> ELSE <<>>
       IN  b1 \o b2 \o b3 \o B64Chunks(b64, i + 4)

\* BASE64_TO_BYTES: the Uint8Array has bufferLength cells; writes past its
\* end are dropped and unwritten cells stay 0
BASE64_TO_BYTES(b64) ==
  LET n == Len(b64)
      pad == IF n >= 2 /\ b64[n] = 64 /\ b64[n - 1] = 64 THEN 2
             ELSE IF n >= 1 /\ b64[n] = 64 THEN 1 ELSE 0
      bufferLength == Max(0, ((n * 3) \div 4) - pad)
      written == B64Chunks(b64, 1)
  IN  [p \in 1..bufferLength |-> IF p <= Len(written) THEN written[p] ELSE 0]

\* ------------------------------------------------------------ resend buffer
\* A JavaScript Map in insertion order: a sequence of <<key, entry>> pairs.
BufKeys(buf) == [i \in 1..Len(buf) |-> buf[i][1]]

BufHas(buf, k) == \E i \in 1..Len(buf) : buf[i][1] = k

\* Map.set: a present key keeps its place and takes the new value
MapSet(buf, k, e) ==
  IF BufHas(buf, k)
  THEN [i \in 1..Len(buf) |-> IF buf[i][1] = k THEN <<k, e>> ELSE buf[i]]
  ELSE Append(buf, <<k, e>>)

\* variant: evicts the entry with the smallest key
RESEND_BUFFER_PUT_EvictMin(buf, frameNo, entry) ==
  LET set == MapSet(buf, frameNo, entry)
      low == CHOOSE i \in 1..Len(set) : \A j \in 1..Len(set) : set[i][1] <= set[j][1]
  IN  IF Len(set) > RESEND_BUFFER_SIZE
      THEN [i \in 1..(Len(set) - 1) |-> IF i < low THEN set[i] ELSE set[i + 1]]
      ELSE set

RESEND_BUFFER_PUT(buf, frameNo, entry) ==
  LET set == MapSet(buf, frameNo, entry)
  IN  IF Len(set) > RESEND_BUFFER_SIZE THEN Tail(set) ELSE set

NotFound == [found |-> FALSE, header |-> [FRAME_DURATION_IN_MS |-> 0], bytes |-> <<>>]

RESEND_BUFFER_GET(buf, frameNo) ==
  IF BufHas(buf, frameNo)
  THEN LET i == CHOOSE j \in 1..Len(buf) : buf[j][1] = frameNo
       IN  [found |-> TRUE, header |-> buf[i][2].header, bytes |-> buf[i][2].bytes]
  ELSE NotFound

\* ------------------------------------------------------------ state
VARIABLES
  FRAME_MS,                \* module constant, read once from the app variables
  WS,                      \* the streaming connection, 0 is null
  STREAMING,
  FRAME_NO,
  COUNTDOWN_REMAINING_MS,
  BOUNDARY_SENT,
  _rec,                    \* the active recorder, 0 is null
  _isChunking,
  _nextTimeout,            \* the pending tick timer, 0 is null
  RESEND_BUFFER,
  appRecordingId,          \* CLIENT_APP_VARIABLES.RECORDING_ID, 0 is null
  conn,                    \* the WebSockets created: readyState, handler, writes
  recorder,                \* the Audio.Recording objects created
  start,                   \* the START_STREAMING_WS calls past the guard
  tick,                    \* the tick timers armed and the TICK runs they start
  stop,                    \* the STOP_STREAMING_WS calls past the guard
  env,                     \* what the environment and the callers did so far
  hist,                    \* keys put, in order (buffer specification)
  opener                   \* one call of the connection opener and its sockets

\* no call of the connection opener was made
NoOpener == [pc |-> "idle"]

vars == <<FRAME_MS, WS, STREAMING, FRAME_NO, COUNTDOWN_REMAINING_MS, BOUNDARY_SENT,
          _rec, _isChunking, _nextTimeout, RESEND_BUFFER, appRecordingId,
          conn, recorder, start, tick, stop, env, hist, opener>>

globals == <<WS, STREAMING, FRAME_NO, COUNTDOWN_REMAINING_MS, BOUNDARY_SENT,
             _rec, _isChunking, _nextTimeout, RESEND_BUFFER>>

InitCommon ==
  /\ WS = 0
  /\ STREAMING = FALSE
  /\ FRAME_NO = 1
  /\ COUNTDOWN_REMAINING_MS = 0
  /\ BOUNDARY_SENT = FALSE
  /\ _rec = 0
  /\ _isChunking = FALSE
  /\ _nextTimeout = 0
  /\ RESEND_BUFFER = <<>>
  /\ appRecordingId = 0
  /\ conn = <<>>
  /\ recorder = <<>>
  /\ start = <<>>
  /\ tick = <<>>
  /\ stop = <<>>
  /\ hist = <<>>
  /\ opener = NoOpener

EnvInit(maxTicks) ==
  [mic |-> "unknown", acks |-> 0, readFaults |-> 0, drops |-> 0,
   noop |-> <<>>, maxTicks |-> maxTicks,
   pattern |-> "none", got |-> NotFound, args |-> <<0, 0>>,
   copy |-> "CLIENT_APP_VARIABLES", maxStarts |-> MaxStarts]

EnvEvents == env.acks + env.readFaults + env.drops + Len(env.noop)

Init == FRAME_MS \in FrameSizes /\ env = EnvInit(MaxTicks) /\ InitCommon

\* ------------------------------------------------------------ the wire
CtlMsg(type, rid) ==
  [MESSAGE_TYPE |-> type, RECORDING_ID |-> rid, FRAME_NO |-> <<>>,
   FRAME_DURATION_IN_MS |-> 0, BYTES_LEN |-> 0, bytes |-> <<>>, via |-> "ctl"]

FrameHeader(rid, frameNo, frameMs, bytes, via) ==
  [MESSAGE_TYPE |-> "FRAME", RECORDING_ID |-> rid, FRAME_NO |-> JsString(frameNo),
   FRAME_DURATION_IN_MS |-> frameMs, BYTES_LEN |-> Len(bytes), bytes |-> <<>>,
   via |-> via]

BinMsg(bytes, via) ==
  [MESSAGE_TYPE |-> "BIN", RECORDING_ID |-> 0, FRAME_NO |-> <<>>,
   FRAME_DURATION_IN_MS |-> 0, BYTES_LEN |-> 0, bytes |-> bytes, via |-> via]

IsOpen(cn, c) == c # 0 /\ cn[c].readyState = 1

\* WS_SEND_JSON: one text write on WS when it is open, nothing otherwise
WS_SEND_JSON(cn, ws, msg) ==
  IF IsOpen(cn, ws)
  THEN [cn EXCEPT ![ws].out = Append(@, msg)]
  ELSE cn

\* variant: the pair is written whatever the readyState
SEND_FRAME_PAIR_Unguarded(cn, ws, rid, frameNo, frameMs, bytes, via) ==
  IF ws = 0 THEN cn
  ELSE [cn EXCEPT ![ws].out =
          @ \o <<FrameHeader(rid, frameNo, frameMs, bytes, via), BinMsg(bytes, via)>>]

\* variant: the header is written and the bytes are not
SEND_FRAME_PAIR_HeaderOnly(cn, ws, rid, frameNo, frameMs, bytes, via) ==
  IF ~IsOpen(cn, ws) THEN cn
  ELSE [cn EXCEPT ![ws].out = Append(@, FrameHeader(rid, frameNo, frameMs, bytes, via))]

\* SEND_FRAME_PAIR: header then bytes, two writes, or nothing when WS is
\* null or not open (via tells the tick loop's sends from the resends)
SEND_FRAME_PAIR(cn, ws, rid, frameNo, frameMs, bytes, via) ==
  IF ~IsOpen(cn, ws) THEN cn
  ELSE [cn EXCEPT ![ws].out =
          @ \o <<FrameHeader(rid, frameNo, frameMs, bytes, via), BinMsg(bytes, via)>>]

\* ------------------------------------------------------------ recorders
\* Audio.Recording: new -> preparing -> prepared -> recording -> stopped.
\* file: the capture artifact behind getURI(); dels: deleteAsync calls on it.
\* by: the TICK run whose capture ended on this recorder (0: none).
NewRecorder == [st |-> "new", file |-> "none", dels |-> 0, by |-> 0]

IsActive(r) == r.st \in {"preparing", "prepared", "recording"}

\* prepareToRecordAsync, issued: refused without the microphone permission
\* and while another recorder holds the microphone (the platform prepares
\* one Recording at a time)
PrepareRes(rc, r) ==
  IF env.mic = "granted" /\ rc[r].st = "new" /\ \A q \in 1..Len(rc) : q # r => ~IsActive(rc[q])
  THEN "ok" ELSE "err"

PrepareCall(rc, r) ==
  IF PrepareRes(rc, r) = "ok" THEN [rc EXCEPT ![r].st = "preparing"] ELSE rc

\* prepareToRecordAsync, resolved: the object may now record
PrepareDone(rc, r) ==
  IF rc[r].st = "preparing" THEN [rc EXCEPT ![r].st = "prepared"] ELSE rc

\* startAsync, issued
StartRecRes(rc, r) == IF rc[r].st = "prepared" THEN "ok" ELSE "err"

StartRecCall(rc, r) ==
  IF StartRecRes(rc, r) = "ok" THEN [rc EXCEPT ![r].st = "recording"] ELSE rc

\* stopAndUnloadAsync, issued: throws on an object that is not prepared
\* or was already unloaded
StopRecRes(rc, r) == IF rc[r].st \in {"prepared", "recording"} THEN "ok" ELSE "err"

StopRecCall(rc, r) ==
  IF StopRecRes(rc, r) = "ok" THEN [rc EXCEPT ![r].st = "stopped"] ELSE rc

\* the slice a tick captured: recRef.getURI() names a file of the device
Captured(rc, r, t) == [rc EXCEPT ![r].file = "exists", ![r].by = t]

\* FileSystem.deleteAsync(uri, {idempotent: true})
DeleteCall(rc, r) ==
  [rc EXCEPT ![r].dels = @ + 1,
             ![r].file = IF @ = "exists" THEN "deleted" ELSE @]

\* ------------------------------------------------------------ tick timer
\* ARM_NEXT of the START call s: the timer and the TICK run it will start are
\* one record of tick.  after: the capture waits already running, whose
\* shorter timers (FRAME_MS) expire before this one (FRAME_MS + SEND_SLACK_MS).
ArmedTick(tk, s) ==
  [pc |-> "armed", s |-> s, rec |-> 0, nrec |-> 0, res |-> "ok",
   after |-> {u \in 1..Len(tk) : tk[u].pc = "wait"},
   delay |-> FRAME_MS + SEND_SLACK_MS]

\* variant: arms without looking at the pending timer
ARM_NEXT_Unguarded(tk, nt, s) == Append(tk, ArmedTick(tk, s))

ARM_NEXT(tk, nt, s) == IF nt # 0 THEN tk ELSE Append(tk, ArmedTick(tk, s))

ArmedTimeout(tk, nt) == IF nt # 0 THEN nt ELSE Len(tk) + 1

\* the bound on the timers armed in one run of the model
CanArm(nt) == nt # 0 \/ Len(tick) < env.maxTicks

\* ------------------------------------------------------------ START
\* fail: the step at which the call gave up; echo: how its preflight settled
StartRec(pc, beats, bpm) ==
  [pc |-> pc, rid |-> 0, beats |-> beats, bpm |-> bpm, rec |-> 0, res |-> "ok",
   fail |-> "none", echo |-> "none"]

\* START_STREAMING_WS called while STREAMING: returns at the guard
StartNoop ==
  /\ STREAMING
  /\ EnvEvents < MaxEnvEvents
  /\ env' = [env EXCEPT !.noop = Append(@, <<"START", Len(stop)>>)]
  /\ UNCHANGED <<FRAME_MS, globals, appRecordingId, conn, recorder, start, tick, stop, hist, opener>>

\* variant: no guard
StartGuard_Off == TRUE

\* if (STREAMING) return;
StartGuard == ~STREAMING

\* The record button's handler stores the new RECORDING_ID and calls
\* START_STREAMING_WS, which runs up to the await of the health probe
\* (or returns when there is no stream URL).
StartCall(args, urlOk) ==
  /\ StartGuard
  /\ Len(start) < env.maxStarts
  /\ appRecordingId' = Len(start) + 1
  /\ STREAMING' = urlOk
  /\ start' = IF urlOk THEN Append(start, StartRec("health", args[1], args[2])) ELSE start
  /\ UNCHANGED <<FRAME_MS, WS, FRAME_NO, COUNTDOWN_REMAINING_MS, BOUNDARY_SENT, _rec,
                 _isChunking, _nextTimeout, RESEND_BUFFER, conn, recorder, tick, stop,
                 env, hist, opener>>

\* the health probe settled (either way): ask for the microphone
StartHealth(s) ==
  /\ start[s].pc = "health"
  /\ start' = [start EXCEPT ![s].pc = "perm"]
  /\ UNCHANGED <<FRAME_MS, globals, appRecordingId, conn, recorder, tick, stop, env, hist, opener>>

\* requestPermissionsAsync / setAudioModeAsync settled; RECORDING_ID is read
StartPerm(s, outcome) ==
  /\ start[s].pc = "perm"
  /\ outcome \in {"granted", "denied", "throws"}
  /\ env.mic # "unknown" /\ outcome # "throws" => outcome = env.mic
  /\ env' = IF outcome = "throws" THEN env ELSE [env EXCEPT !.mic = outcome]
  /\ IF outcome = "throws" \/ appRecordingId = 0
     THEN /\ STREAMING' = FALSE
          /\ start' = [start EXCEPT ![s].pc = "failed",
                          ![s].fail = IF outcome = "throws" THEN "perm" ELSE "id"]
     ELSE /\ STREAMING' = STREAMING
          /\ start' = [start EXCEPT ![s].pc = "echo", ![s].rid = appRecordingId]
  /\ UNCHANGED <<FRAME_MS, WS, FRAME_NO, COUNTDOWN_REMAINING_MS, BOUNDARY_SENT, _rec,
                 _isChunking, _nextTimeout, RESEND_BUFFER, appRecordingId, conn,
                 recorder, tick, stop, hist, opener>>

\* The two copies of the module differ in the catch of the preflight: in
\* CLIENT_APP_VARIABLES.js it only warns, in CLIENT_AUDIO_STREAM_MASTER.js
\* it sets STREAMING = false and returns.
EchoFailureAborts(copy) == copy = "CLIENT_AUDIO_STREAM_MASTER"

\* the echo preflight settled: the echo socket is closed again and the
\* stream socket is opened, or the call gives up
StartEcho(s, echoOk) ==
  /\ start[s].pc = "echo"
  /\ IF ~echoOk /\ EchoFailureAborts(env.copy)
     THEN /\ STREAMING' = FALSE
          /\ start' = [start EXCEPT ![s].pc = "failed", ![s].fail = "echo",
                                     ![s].echo = "failed"]
     ELSE /\ STREAMING' = STREAMING
          /\ start' = [start EXCEPT ![s].pc = "open",
                                     ![s].echo = IF echoOk THEN "ok" ELSE "failed"]
  /\ UNCHANGED <<FRAME_MS, WS, FRAME_NO, COUNTDOWN_REMAINING_MS, BOUNDARY_SENT, _rec,
                 _isChunking, _nextTimeout, RESEND_BUFFER, appRecordingId, conn,
                 recorder, tick, stop, env, hist, opener>>

\* variant: one second per beat whatever the tempo
CountdownMs_NoBpm(beats, bpm) == Max(0, beats * 1000)

\* Math.max(0, Math.round(countdownBeats * (60000 / Math.max(1, bpm))))
CountdownMs(beats, bpm) == Max(0, RoundDiv(beats * 60000, Max(1, bpm)))

\* variant: the catch of the stream connection leaves STREAMING set
StartOpen_StaysStreaming(s, opened) ==
  /\ start[s].pc = "open"
  /\ IF ~opened
     THEN /\ STREAMING' = STREAMING
          /\ start' = [start EXCEPT ![s].pc = "failed", ![s].fail = "open"]
          /\ UNCHANGED <<WS, FRAME_NO, COUNTDOWN_REMAINING_MS, BOUNDARY_SENT, _rec,
                         conn, recorder>>
     ELSE LET c == Len(conn) + 1
              r == Len(recorder) + 1
              rc == Append(recorder, NewRecorder)
              cd == CountdownMs(start[s].beats, start[s].bpm)
          IN  /\ WS' = c
              /\ conn' = Append(conn, [readyState |-> 1, h |-> s,
                                       out |-> <<CtlMsg("START", start[s].rid)>>])
              /\ COUNTDOWN_REMAINING_MS' = cd
              /\ FRAME_NO' = 1
              /\ BOUNDARY_SENT' = (cd = 0)
              /\ _rec' = r
              /\ recorder' = PrepareCall(rc, r)
              /\ start' = [start EXCEPT ![s].pc = "prime_prep", ![s].rec = r,
                                         ![s].res = PrepareRes(rc, r)]
              /\ STREAMING' = STREAMING
  /\ UNCHANGED <<FRAME_MS, _isChunking, _nextTimeout, RESEND_BUFFER, appRecordingId,
                 tick, stop, env, hist, opener>>

\* WS_OPEN_WITH_RETRIES settled.  Opened: handlers installed, START sent,
\* the counters set, the first recorder created and its prepare issued.
StartOpen(s, opened) ==
  /\ start[s].pc = "open"
  /\ IF ~opened
     THEN /\ STREAMING' = FALSE
          /\ start' = [start EXCEPT ![s].pc = "failed", ![s].fail = "open"]
          /\ UNCHANGED <<WS, FRAME_NO, COUNTDOWN_REMAINING_MS, BOUNDARY_SENT, _rec,
                         conn, recorder>>
     ELSE LET c == Len(conn) + 1
              r == Len(recorder) + 1
              rc == Append(recorder, NewRecorder)
              cd == CountdownMs(start[s].beats, start[s].bpm)
          IN  /\ WS' = c
              /\ conn' = Append(conn, [readyState |-> 1, h |-> s,
                                       out |-> <<CtlMsg("START", start[s].rid)>>])
              /\ COUNTDOWN_REMAINING_MS' = cd
              /\ FRAME_NO' = 1
              /\ BOUNDARY_SENT' = (cd = 0)
              /\ _rec' = r
              /\ recorder' = PrepareCall(rc, r)
              /\ start' = [start EXCEPT ![s].pc = "prime_prep", ![s].rec = r,
                                         ![s].res = PrepareRes(rc, r)]
              /\ STREAMING' = STREAMING
  /\ UNCHANGED <<FRAME_MS, _isChunking, _nextTimeout, RESEND_BUFFER, appRecordingId,
                 tick, stop, env, hist, opener>>

\* prepareToRecordAsync of the first recorder settled; _rec.startAsync() is
\* issued on whatever _rec holds now (a TypeError when it is null)
StartPrimePrep(s) ==
  /\ start[s].pc = "prime_prep"
  /\ IF start[s].res = "err"
     THEN /\ start' = [start EXCEPT ![s].pc = "threw"]
          /\ recorder' = recorder
     ELSE LET rc == PrepareDone(recorder, start[s].rec)
          IN  IF _rec = 0
              THEN /\ start' = [start EXCEPT ![s].pc = "threw"]
                   /\ recorder' = rc
              ELSE /\ start' = [start EXCEPT ![s].pc = "prime_start",
                                              ![s].res = StartRecRes(rc, _rec)]
                   /\ recorder' = StartRecCall(rc, _rec)
  /\ UNCHANGED <<FRAME_MS, globals, appRecordingId, conn, tick, stop, env, hist, opener>>

\* startAsync settled: the first tick is armed
StartPrimeStart(s) ==
  /\ start[s].pc = "prime_start"
  /\ IF start[s].res = "err"
     THEN /\ start' = [start EXCEPT ![s].pc = "threw"]
          /\ UNCHANGED <<tick, _nextTimeout>>
     ELSE /\ CanArm(_nextTimeout)
          /\ start' = [start EXCEPT ![s].pc = "done"]
          /\ tick' = ARM_NEXT(tick, _nextTimeout, s)
          /\ _nextTimeout' = ArmedTimeout(tick, _nextTimeout)
  /\ UNCHANGED <<FRAME_MS, WS, STREAMING, FRAME_NO, COUNTDOWN_REMAINING_MS,
                 BOUNDARY_SENT, _rec, _isChunking, RESEND_BUFFER, appRecordingId,
                 conn, recorder, stop, env, hist, opener>>

\* ------------------------------------------------------------ TICK
Ended(tk, t, pc) ==
  [tk EXCEPT ![t] = [pc |-> pc, s |-> tk[t].s, rec |-> 0, nrec |-> 0, res |-> "ok",
                     after |-> {}, delay |-> tk[t].delay]]

InFlight(tk, t) == tk[t].pc \notin {"armed", "cleared", "returned", "done"}

\* TICK's finally: if (STREAMING) ARM_NEXT(FRAME_MS + SEND_SLACK_MS)
FinallyTick(tk, nt, t) ==
  IF STREAMING THEN ARM_NEXT(Ended(tk, t, "done"), nt, tk[t].s) ELSE Ended(tk, t, "done")

FinallyTimeout(tk, nt, t) ==
  IF STREAMING THEN ArmedTimeout(Ended(tk, t, "done"), nt) ELSE nt

FinallyCanArm(nt) == STREAMING => CanArm(nt)

\* RECORD_MICRO_CHUNK returned null from inside its try (its finally clears
\* the busy flag), TICK returns at "if (!uri)" and runs its own finally
NoUri(t) ==
  /\ FinallyCanArm(_nextTimeout)
  /\ _isChunking' = FALSE
  /\ tick' = FinallyTick(tick, _nextTimeout, t)
  /\ _nextTimeout' = FinallyTimeout(tick, _nextTimeout, t)

\* The tick timer fires: _nextTimeout = null, TICK starts and runs up to the
\* first await of RECORD_MICRO_CHUNK.
TimerFire(t) ==
  /\ tick[t].pc = "armed"
  /\ \A u \in tick[t].after : tick[u].pc # "wait"
  /\ IF ~STREAMING \/ ~IsOpen(conn, WS)
     THEN /\ tick' = Ended(tick, t, "returned")
          /\ _nextTimeout' = 0
          /\ UNCHANGED <<_isChunking, _rec, recorder>>
     ELSE IF _isChunking
     THEN /\ Len(tick) < env.maxTicks
          /\ tick' = FinallyTick(tick, 0, t)
          /\ _nextTimeout' = FinallyTimeout(tick, 0, t)
          /\ UNCHANGED <<_isChunking, _rec, recorder>>
     ELSE IF _rec = 0
     THEN LET r == Len(recorder) + 1
              rc == Append(recorder, NewRecorder)
          IN  /\ _rec' = r
              /\ recorder' = PrepareCall(rc, r)
              /\ tick' = [tick EXCEPT ![t].pc = "prep0", ![t].nrec = r,
                                       ![t].res = PrepareRes(rc, r), ![t].after = {}]
              /\ _isChunking' = TRUE
              /\ _nextTimeout' = 0
     ELSE /\ tick' = [tick EXCEPT ![t].pc = "wait", ![t].rec = _rec, ![t].after = {}]
          /\ _isChunking' = TRUE
          /\ _nextTimeout' = 0
          /\ UNCHANGED <<_rec, recorder>>
  /\ UNCHANGED <<FRAME_MS, WS, STREAMING, FRAME_NO, COUNTDOWN_REMAINING_MS,
                 BOUNDARY_SENT, RESEND_BUFFER, appRecordingId, conn, start, stop,
                 env, hist, opener>>

\* prepareToRecordAsync settled (the recorder of a tick that found none, or
\* the successor recorder): _rec.startAsync() is issued on the current _rec
TickPrepared(t) ==
  /\ tick[t].pc \in {"prep0", "prep"}
  /\ LET rc == IF tick[t].res = "ok" THEN PrepareDone(recorder, tick[t].nrec)
               ELSE recorder
     IN  IF tick[t].res = "err" \/ _rec = 0
         THEN /\ NoUri(t)
              /\ recorder' = rc
         ELSE /\ recorder' = StartRecCall(rc, _rec)
              /\ tick' = [tick EXCEPT ![t].res = StartRecRes(rc, _rec),
                            ![t].pc = IF tick[t].pc = "prep0" THEN "start0" ELSE "start"]
              /\ UNCHANGED <<_isChunking, _nextTimeout>>
  /\ UNCHANGED <<FRAME_MS, WS, STREAMING, FRAME_NO, COUNTDOWN_REMAINING_MS,
                 BOUNDARY_SENT, _rec, RESEND_BUFFER, appRecordingId, conn, start,
                 stop, env, hist, opener>>

\* startAsync of a tick's own first recorder settled: the slice wait begins
TickStart0(t) ==
  /\ tick[t].pc = "start0"
  /\ IF tick[t].res = "err"
     THEN NoUri(t)
     ELSE /\ tick' = [tick EXCEPT ![t].pc = "wait", ![t].rec = _rec]
          /\ UNCHANGED <<_isChunking, _nextTimeout>>
  /\ UNCHANGED <<FRAME_MS, WS, STREAMING, FRAME_NO, COUNTDOWN_REMAINING_MS,
                 BOUNDARY_SENT, _rec, RESEND_BUFFER, appRecordingId, conn, recorder,
                 start, stop, env, hist, opener>>

\* variant: the wait is never followed by a check
Abandoned_Never(t) == FALSE

\* if (!STREAMING) return null; if (!recRef || recRef !== _rec) return null;
Abandoned(t) == ~STREAMING \/ tick[t].rec = 0 \/ tick[t].rec # _rec

\* the slice wait of FRAME_MS ended: bail out, or stop the recorder
TickWait(t) ==
  /\ tick[t].pc = "wait"
  /\ IF Abandoned(t)
     THEN /\ NoUri(t)
          /\ recorder' = recorder
     ELSE /\ recorder' = IF StopRecRes(recorder, tick[t].rec) = "ok"
                         THEN Captured(StopRecCall(recorder, tick[t].rec), tick[t].rec, t)
                         ELSE recorder
          /\ tick' = [tick EXCEPT ![t].pc = "stopping",
                                   ![t].res = StopRecRes(recorder, tick[t].rec)]
          /\ UNCHANGED <<_isChunking, _nextTimeout>>
  /\ UNCHANGED <<FRAME_MS, WS, STREAMING, FRAME_NO, COUNTDOWN_REMAINING_MS,
                 BOUNDARY_SENT, _rec, RESEND_BUFFER, appRecordingId, conn, start,
                 stop, env, hist, opener>>

\* stopAndUnloadAsync settled: the uri is taken and the successor recorder
\* created, or (no longer streaming) the uri is returned at once
TickStopped(t) ==
  /\ tick[t].pc = "stopping"
  /\ IF tick[t].res = "err"
     THEN /\ NoUri(t)
          /\ UNCHANGED <<_rec, recorder>>
     ELSE IF STREAMING /\ tick[t].rec = _rec
     THEN LET r == Len(recorder) + 1
              rc == Append(recorder, NewRecorder)
          IN  /\ _rec' = r
              /\ recorder' = PrepareCall(rc, r)
              /\ tick' = [tick EXCEPT ![t].pc = "prep", ![t].nrec = r,
                                       ![t].res = PrepareRes(rc, r)]
              /\ UNCHANGED <<_isChunking, _nextTimeout>>
     ELSE /\ tick' = [tick EXCEPT ![t].pc = "read"]
          /\ _isChunking' = FALSE
          /\ UNCHANGED <<_rec, recorder, _nextTimeout>>
  /\ UNCHANGED <<FRAME_MS, WS, STREAMING, FRAME_NO, COUNTDOWN_REMAINING_MS,
                 BOUNDARY_SENT, RESEND_BUFFER, appRecordingId, conn, start, stop,
                 env, hist, opener>>

\* startAsync of the successor recorder settled: RECORD_MICRO_CHUNK returns
\* the uri and READ_FILE_AS_UINT8 is issued
TickStart(t) ==
  /\ tick[t].pc = "start"
  /\ IF tick[t].res = "err"
     THEN NoUri(t)
     ELSE /\ tick' = [tick EXCEPT ![t].pc = "read"]
          /\ _isChunking' = FALSE
          /\ UNCHANGED _nextTimeout
  /\ UNCHANGED <<FRAME_MS, WS, STREAMING, FRAME_NO, COUNTDOWN_REMAINING_MS,
                 BOUNDARY_SENT, _rec, RESEND_BUFFER, appRecordingId, conn, recorder,
                 start, stop, env, hist, opener>>

\* variant: the counter advances by two
NextFrameNo_Skip(n) == n + 2

\* FRAME_NO += 1
NextFrameNo(n) == n + 1

\* the base64 text readAsStringAsync returns for the file of recorder r
FileContent(r) == FileContents[((r - 1) % Len(FileContents)) + 1]

BufferEntry(bytes) == [header |-> [FRAME_DURATION_IN_MS |-> FRAME_MS], bytes |-> bytes]

\* READ_FILE_AS_UINT8 threw: TICK's catch logs, its finally re-arms
TickReadThrows(t) ==
  /\ tick[t].pc = "read"
  /\ EnvEvents < MaxEnvEvents
  /\ FinallyCanArm(_nextTimeout)
  /\ env' = [env EXCEPT !.readFaults = @ + 1]
  /\ tick' = FinallyTick(tick, _nextTimeout, t)
  /\ _nextTimeout' = FinallyTimeout(tick, _nextTimeout, t)
  /\ UNCHANGED <<FRAME_MS, WS, STREAMING, FRAME_NO, COUNTDOWN_REMAINING_MS,
                 BOUNDARY_SENT, _rec, _isChunking, RESEND_BUFFER, appRecordingId,
                 conn, recorder, start, stop, hist, opener>>

\* variant: the slice is classified by the remaining time alone
InCountdown_ByRemaining == COUNTDOWN_REMAINING_MS >= 0

\* if (!BOUNDARY_SENT) { if (COUNTDOWN_REMAINING_MS > 0) { ... discard
InCountdown == ~BOUNDARY_SENT /\ COUNTDOWN_REMAINING_MS > 0

\* READ_FILE_AS_UINT8 returned the bytes: the slice is discarded (countdown)
\* or numbered, buffered and sent; either way deleteAsync(uri) is issued
TickRead(t) ==
  /\ tick[t].pc = "read"
  /\ LET audioBytes == BASE64_TO_BYTES(FileContent(tick[t].rec))
     IN  IF InCountdown
         THEN /\ COUNTDOWN_REMAINING_MS' = COUNTDOWN_REMAINING_MS - FRAME_MS
              /\ BOUNDARY_SENT' = (COUNTDOWN_REMAINING_MS - FRAME_MS <= 0)
              /\ FRAME_NO' = IF COUNTDOWN_REMAINING_MS - FRAME_MS <= 0 THEN 1 ELSE FRAME_NO
              /\ UNCHANGED <<RESEND_BUFFER, conn>>
         ELSE /\ BOUNDARY_SENT' = TRUE
              /\ FRAME_NO' = NextFrameNo(FRAME_NO)
              /\ RESEND_BUFFER' = RESEND_BUFFER_PUT(RESEND_BUFFER, FRAME_NO,
                                                    BufferEntry(audioBytes))
              /\ conn' = SEND_FRAME_PAIR(conn, WS, start[tick[t].s].rid, FRAME_NO,
                                         FRAME_MS, audioBytes, "tick")
              /\ UNCHANGED COUNTDOWN_REMAINING_MS
  /\ recorder' = DeleteCall(recorder, tick[t].rec)
  /\ tick' = [tick EXCEPT ![t].pc = "del"]
  /\ UNCHANGED <<FRAME_MS, WS, STREAMING, _rec, _isChunking, _nextTimeout,
                 appRecordingId, start, stop, env, hist, opener>>

\* deleteAsync settled: TICK's finally
TickDel(t) ==
  /\ tick[t].pc = "del"
  /\ FinallyCanArm(_nextTimeout)
  /\ tick' = FinallyTick(tick, _nextTimeout, t)
  /\ _nextTimeout' = FinallyTimeout(tick, _nextTimeout, t)
  /\ UNCHANGED <<FRAME_MS, WS, STREAMING, FRAME_NO, COUNTDOWN_REMAINING_MS,
                 BOUNDARY_SENT, _rec, _isChunking, RESEND_BUFFER, appRecordingId,
                 conn, recorder, start, stop, env, hist, opener>>

\* ------------------------------------------------------------ STOP
\* variant: no guard, the teardown runs again
StopNoop_Unguarded ==
  /\ ~STREAMING
  /\ EnvEvents < MaxEnvEvents
  /\ env' = [env EXCEPT !.noop = Append(@, <<"STOP", Len(stop)>>)]
  /\ _rec' = 0
  /\ _isChunking' = FALSE
  /\ WS' = 0
  /\ RESEND_BUFFER' = <<>>
  /\ UNCHANGED <<FRAME_MS, STREAMING, FRAME_NO, COUNTDOWN_REMAINING_MS, BOUNDARY_SENT,
                 _nextTimeout, appRecordingId, conn, recorder, start, tick, stop, hist, opener>>

\* STOP_STREAMING_WS called while not STREAMING: returns at the guard
StopNoop ==
  /\ ~STREAMING
  /\ EnvEvents < MaxEnvEvents
  /\ env' = [env EXCEPT !.noop = Append(@, <<"STOP", Len(stop)>>)]
  /\ UNCHANGED <<FRAME_MS, globals, appRecordingId, conn, recorder, start, tick, stop, hist, opener>>

\* the second half of STOP_STREAMING_WS: the STOP message when WS is open,
\* WS.close(), WS = null, RESEND_BUFFER.clear()
TeardownConn(cn, ws, rid) ==
  LET sent == WS_SEND_JSON(cn, ws, CtlMsg("STOP", rid))
  IN  IF ws # 0 THEN [sent EXCEPT ![ws].readyState = 3] ELSE sent

\* the session state STOP was called in: STREAMING once the last START call
\* has armed the tick loop, OPENING before that
CalledIn == IF start # <<>> /\ start[Len(start)].pc = "done" THEN "STREAMING" ELSE "OPENING"

\* from, starts: the session state and the number of START calls at the
\* call; ws, wasOpen: the connection this STOP closed and whether it was
\* open then; waiting: the ticks that were in their capture wait at the call;
\* res: how recRef.stopAndUnloadAsync() will settle
StopRec(pc, from, rec, ws, wasOpen) ==
  [pc |-> pc, from |-> from, starts |-> Len(start), rec |-> rec, ws |-> ws,
   wasOpen |-> wasOpen, waiting |-> {t \in 1..Len(tick) : tick[t].pc = "wait"},
   res |-> IF rec = 0 THEN "none" ELSE StopRecRes(recorder, rec)]

\* clearTimeout(_nextTimeout)
ClearTimeout(tk, nt) ==
  IF nt # 0 /\ tk[nt].pc = "armed" THEN Ended(tk, nt, "cleared") ELSE tk

\* variant: the STOP message is written before the recorder is awaited
StopCall_StopFirst ==
  /\ STREAMING
  /\ Len(stop) < MaxStops
  /\ STREAMING' = FALSE
  /\ tick' = ClearTimeout(tick, _nextTimeout)
  /\ _nextTimeout' = 0
  /\ _rec' = 0
  /\ _isChunking' = FALSE
  /\ IF _rec # 0
     THEN /\ recorder' = StopRecCall(recorder, _rec)
          /\ stop' = Append(stop, StopRec("stopping", CalledIn, _rec, 0, FALSE))
          /\ conn' = WS_SEND_JSON(conn, WS, CtlMsg("STOP", appRecordingId))
          /\ UNCHANGED <<WS, RESEND_BUFFER>>
     ELSE /\ recorder' = recorder
          /\ stop' = Append(stop, StopRec("done", CalledIn, 0, WS, IsOpen(conn, WS)))
          /\ conn' = TeardownConn(conn, WS, appRecordingId)
          /\ WS' = 0
          /\ RESEND_BUFFER' = <<>>
  /\ UNCHANGED <<FRAME_MS, FRAME_NO, COUNTDOWN_REMAINING_MS, BOUNDARY_SENT,
                 appRecordingId, start, env, hist, opener>>

\* STOP_STREAMING_WS up to the await of recRef.stopAndUnloadAsync(), or to
\* its end when there is no recorder to stop
StopCall ==
  /\ STREAMING
  /\ Len(stop) < MaxStops
  /\ STREAMING' = FALSE
  /\ tick' = ClearTimeout(tick, _nextTimeout)
  /\ _nextTimeout' = 0
  /\ _rec' = 0
  /\ _isChunking' = FALSE
  /\ IF _rec # 0
     THEN /\ recorder' = StopRecCall(recorder, _rec)
          /\ stop' = Append(stop, StopRec("stopping", CalledIn, _rec, 0, FALSE))
          /\ UNCHANGED <<WS, conn, RESEND_BUFFER>>
     ELSE /\ recorder' = recorder
          /\ stop' = Append(stop, StopRec("done", CalledIn, 0, WS, IsOpen(conn, WS)))
          /\ conn' = TeardownConn(conn, WS, appRecordingId)
          /\ WS' = 0
          /\ RESEND_BUFFER' = <<>>
  /\ UNCHANGED <<FRAME_MS, FRAME_NO, COUNTDOWN_REMAINING_MS, BOUNDARY_SENT,
                 appRecordingId, start, env, hist, opener>>

\* variant: a rejection of stopAndUnloadAsync ends STOP there
StopFinish_Rethrows(k) ==
  /\ stop[k].pc = "stopping"
  /\ stop[k].res = "ok"
  /\ stop' = [stop EXCEPT ![k].pc = "done", ![k].ws = WS,
                           ![k].wasOpen = IsOpen(conn, WS)]
  /\ conn' = TeardownConn(conn, WS, appRecordingId)
  /\ WS' = 0
  /\ RESEND_BUFFER' = <<>>
  /\ UNCHANGED <<FRAME_MS, STREAMING, FRAME_NO, COUNTDOWN_REMAINING_MS, BOUNDARY_SENT,
                 _rec, _isChunking, _nextTimeout, appRecordingId, recorder, start,
                 tick, env, hist, opener>>

\* stopAndUnloadAsync settled (a throw is swallowed): the rest of STOP
StopFinish(k) ==
  /\ stop[k].pc = "stopping"
  /\ stop' = [stop EXCEPT ![k].pc = "done", ![k].ws = WS,
                           ![k].wasOpen = IsOpen(conn, WS)]
  /\ conn' = TeardownConn(conn, WS, appRecordingId)
  /\ WS' = 0
  /\ RESEND_BUFFER' = <<>>
  /\ UNCHANGED <<FRAME_MS, STREAMING, FRAME_NO, COUNTDOWN_REMAINING_MS, BOUNDARY_SENT,
                 _rec, _isChunking, _nextTimeout, appRecordingId, recorder, start,
                 tick, env, hist, opener>>

\* ------------------------------------------------------------ inbound
RECURSIVE Resend_Twice(_, _, _, _, _)
RECURSIVE Resend_StopsAtMiss(_, _, _, _, _)
RECURSIVE Resend(_, _, _, _, _)
\* variant: a listed number the buffer does not hold ends the loop
Resend_StopsAtMiss(cn, ws, rid, missing, buf) ==
  IF missing = <<>> THEN cn
  ELSE LET m == Head(missing)
           entry == RESEND_BUFFER_GET(buf, m)
       IN  IF entry.found
           THEN Resend_StopsAtMiss(
                  SEND_FRAME_PAIR(cn, ws, rid, m, entry.header.FRAME_DURATION_IN_MS,
                                  entry.bytes, "resend"),
                  ws, rid, Tail(missing), buf)
           ELSE cn

\* variant: every listed frame found is sent a second time unasked
Resend_Twice(cn, ws, rid, missing, buf) ==
  IF missing = <<>> THEN cn
  ELSE LET m == Head(missing)
           entry == RESEND_BUFFER_GET(buf, m)
           once == IF entry.found
                   THEN SEND_FRAME_PAIR(cn, ws, rid, m, entry.header.FRAME_DURATION_IN_MS,
                                        entry.bytes, "resend")
                   ELSE cn
           sent == IF entry.found
                   THEN SEND_FRAME_PAIR(once, ws, rid, m, entry.header.FRAME_DURATION_IN_MS,
                                        entry.bytes, "resend")
                   ELSE cn
       IN  Resend_Twice(sent, ws, rid, Tail(missing), buf)

\* the ACK branch of WS.onmessage: for (const m of missing) ...
Resend(cn, ws, rid, missing, buf) ==
  IF missing = <<>> THEN cn
  ELSE LET m == Head(missing)
           entry == RESEND_BUFFER_GET(buf, m)
           sent == IF entry.found
                   THEN SEND_FRAME_PAIR(cn, ws, rid, m, entry.header.FRAME_DURATION_IN_MS,
                                        entry.bytes, "resend")
                   ELSE cn
       IN  Resend(sent, ws, rid, Tail(missing), buf)

\* the inbound acknowledgement of the wire protocol, as parsed JSON
AckMsg(missing) == [MESSAGE_TYPE |-> "ACK", MISSING_FRAMES |-> missing]

\* the member of a parsed message the handler compares with 'ACK'
AckKey(copy) == IF copy = "CLIENT_AUDIO_STREAM_MASTER" THEN "type" ELSE "MESSAGE_TYPE"

\* msg.MESSAGE_TYPE === 'ACK' (msg.type === 'ACK' in the older copy); a
\* member the message does not have is undefined
IsAck(msg, copy) == AckKey(copy) \in DOMAIN msg /\ msg[AckKey(copy)] = "ACK"

\* an ACK with MISSING_FRAMES arrives on connection c, whose onmessage
\* handler is the one START call conn[c].h installed
Ack(c, missing) ==
  /\ conn[c].readyState = 1
  /\ conn[c].h # 0
  /\ EnvEvents < MaxEnvEvents
  /\ env' = [env EXCEPT !.acks = @ + 1]
  /\ conn' = IF IsAck(AckMsg(missing), env.copy)
             THEN Resend(conn, WS, start[conn[c].h].rid, missing, RESEND_BUFFER)
             ELSE conn
  /\ UNCHANGED <<FRAME_MS, globals, appRecordingId, recorder, start, tick, stop, hist, opener>>

\* the peer or the network closes connection c
ConnDrop(c) ==
  /\ conn[c].readyState = 1
  /\ EnvEvents < MaxEnvEvents
  /\ env' = [env EXCEPT !.drops = @ + 1]
  /\ conn' = [conn EXCEPT ![c].readyState = 3]
  /\ UNCHANGED <<FRAME_MS, globals, appRecordingId, recorder, start, tick, stop, hist, opener>>

\* ------------------------------------------------------------ specification
Next ==
  \/ StartNoop
  \/ \E args \in StartArgs, urlOk \in BOOLEAN : StartCall(args, urlOk)
  \/ \E s \in 1..Len(start) : StartHealth(s)
  \/ \E s \in 1..Len(start), o \in {"granted", "denied", "throws"} : StartPerm(s, o)
  \/ \E s \in 1..Len(start) : StartEcho(s, TRUE)
  \/ \E s \in 1..Len(start), opened \in BOOLEAN : StartOpen(s, opened)
  \/ \E s \in 1..Len(start) : StartPrimePrep(s)
  \/ \E s \in 1..Len(start) : StartPrimeStart(s)
  \/ \E t \in 1..Len(tick) : TimerFire(t)
  \/ \E t \in 1..Len(tick) : TickPrepared(t)
  \/ \E t \in 1..Len(tick) : TickStart0(t)
  \/ \E t \in 1..Len(tick) : TickWait(t)
  \/ \E t \in 1..Len(tick) : TickStopped(t)
  \/ \E t \in 1..Len(tick) : TickStart(t)
  \/ \E t \in 1..Len(tick) : TickReadThrows(t)
  \/ \E t \in 1..Len(tick) : TickRead(t)
  \/ \E t \in 1..Len(tick) : TickDel(t)
  \/ StopNoop
  \/ StopCall
  \/ \E k \in 1..Len(stop) : StopFinish(k)
  \/ \E c \in 1..Len(conn), missing \in MissingLists : Ack(c, missing)
  \/ \E c \in 1..Len(conn) : ConnDrop(c)

Spec == Init /\ [][Next]_vars

\* ------------------------------------------------------------ buffer alone
\* The key of the n-th put: ascending, descending, alternating from both
\* ends, or cycling through 130 keys so that keys come back.
PutKey(p, n) ==
  CASE p = "up" -> n
    [] p = "down" -> 1000 - n
    [] p = "zigzag" -> IF n % 2 = 1 THEN n ELSE 1000 - n
    [] OTHER -> ((n - 1) % 130) + 1

BufInit ==
  /\ FRAME_MS \in FrameSizes
  /\ \E p \in PutPatterns : env = [EnvInit(0) EXCEPT !.pattern = p]
  /\ InitCommon

BufPut ==
  /\ Len(hist) < MaxPuts
  /\ LET k == PutKey(env.pattern, Len(hist) + 1)
     IN  /\ RESEND_BUFFER' = RESEND_BUFFER_PUT(RESEND_BUFFER, k,
                                               BufferEntry(<<Len(hist) % 256>>))
         /\ hist' = Append(hist, k)
  /\ UNCHANGED <<FRAME_MS, WS, STREAMING, FRAME_NO, COUNTDOWN_REMAINING_MS,
                 BOUNDARY_SENT, _rec, _isChunking, _nextTimeout, appRecordingId,
                 conn, recorder, start, tick, stop, env, opener>>

\* a get of the first or of the latest key put; the Map is left as it is
BufGet(k) ==
  /\ env' = [env EXCEPT !.got = RESEND_BUFFER_GET(RESEND_BUFFER, k)]
  /\ UNCHANGED <<FRAME_MS, globals, appRecordingId, conn, recorder, start, tick,
                 stop, hist, opener>>

BufNext ==
  \/ BufPut
  \/ \E k \in {hist[i] : i \in {1, Len(hist)} \cap DOMAIN hist} : BufGet(k)

BufSpec == BufInit /\ [][BufNext]_vars

\* ------------------------------------------------------------ countdown alone
\* One session in which every await succeeds and nothing interferes.
CountdownInit ==
  /\ \E a \in CountdownArgs :
       /\ FRAME_MS = a[3]
       /\ env = [EnvInit(MaxSlices) EXCEPT !.args = <<a[1], a[2]>>]
  /\ InitCommon

CountdownNext ==
  \/ StartCall(env.args, TRUE)
  \/ \E s \in 1..Len(start) : StartHealth(s)
  \/ \E s \in 1..Len(start) : StartPerm(s, "granted")
  \/ \E s \in 1..Len(start) : StartEcho(s, TRUE)
  \/ \E s \in 1..Len(start) : StartOpen(s, TRUE)
  \/ \E s \in 1..Len(start) : StartPrimePrep(s)
  \/ \E s \in 1..Len(start) : StartPrimeStart(s)
  \/ \E t \in 1..Len(tick) : TimerFire(t)
  \/ \E t \in 1..Len(tick) : TickWait(t)
  \/ \E t \in 1..Len(tick) : TickStopped(t)
  \/ \E t \in 1..Len(tick) : TickPrepared(t)
  \/ \E t \in 1..Len(tick) : TickStart(t)
  \/ \E t \in 1..Len(tick) : TickRead(t)
  \/ \E t \in 1..Len(tick) : TickDel(t)

CountdownSpec == CountdownInit /\ [][CountdownNext]_vars

\* ------------------------------------------------------------ one session
\* One START call with everything that can happen to its session, and the
\* promise STOP awaits always settles.
SessionInit ==
  /\ FRAME_MS \in FrameSizes
  /\ env = [EnvInit(MaxTicks) EXCEPT !.maxStarts = 1]
  /\ InitCommon

SessionNext ==
  \/ StartNoop
  \/ \E args \in StartArgs, urlOk \in BOOLEAN : StartCall(args, urlOk)
  \/ \E s \in 1..Len(start) : StartHealth(s)
  \/ \E s \in 1..Len(start), o \in {"granted", "denied", "throws"} : StartPerm(s, o)
  \/ \E s \in 1..Len(start) : StartEcho(s, TRUE)
  \/ \E s \in 1..Len(start), opened \in BOOLEAN : StartOpen(s, opened)
  \/ \E s \in 1..Len(start) : StartPrimePrep(s)
  \/ \E s \in 1..Len(start) : StartPrimeStart(s)
  \/ \E t \in 1..Len(tick) : TimerFire(t)
  \/ \E t \in 1..Len(tick) : TickPrepared(t)
  \/ \E t \in 1..Len(tick) : TickWait(t)
  \/ \E t \in 1..Len(tick) : TickStopped(t)
  \/ \E t \in 1..Len(tick) : TickStart(t)
  \/ \E t \in 1..Len(tick) : TickReadThrows(t)
  \/ \E t \in 1..Len(tick) : TickRead(t)
  \/ \E t \in 1..Len(tick) : TickDel(t)
  \/ StopNoop
  \/ StopCall
  \/ \E k \in 1..Len(stop) : StopFinish(k)
  \/ \E c \in 1..Len(conn), missing \in MissingLists : Ack(c, missing)
  \/ \E c \in 1..Len(conn) : ConnDrop(c)

SessionSpec ==
  SessionInit /\ [][SessionNext]_vars
    /\ WF_vars(\E k \in 1..Len(stop) : StopFinish(k))

\* --------------------------------------------- the id under the session
\* The navigation bar's Compose button: CLIENT_APP_VARIABLES.RECORDING_ID =
\* null, whatever the streaming code is doing at the time.
goCompose ==
  /\ appRecordingId # 0
  /\ appRecordingId' = 0
  /\ UNCHANGED <<FRAME_MS, globals, conn, recorder, start, tick, stop, env, hist, opener>>

IdNext == SessionNext \/ goCompose

\* one START call, with the Compose button free to act at any moment
IdSpec == SessionInit /\ [][IdNext]_vars

\* ------------------------------------------ inbound messages of any shape
\* What arrives on the connection, as the handler sees it: whether the text
\* parses, the member that tags the kind and its value, and MISSING_FRAMES:
\* present or not, a list or not, and what iterating it would yield.
Raw(valid, key, type, has, isArray, items) ==
  [valid |-> valid, key |-> key, type |-> type, has |-> has, isArray |-> isArray,
   items |-> items]

\* text that is not JSON; a banner; an ACK tagged with the other copy's
\* member; an ACK without MISSING_FRAMES; an ACK whose MISSING_FRAMES is the
\* string "1"
IgnoredRaws ==
  {Raw(FALSE, "none", "none", FALSE, FALSE, <<>>),
   Raw(TRUE, "MESSAGE_TYPE", "HELLO", FALSE, FALSE, <<>>),
   Raw(TRUE, "type", "ACK", TRUE, TRUE, <<1>>),
   Raw(TRUE, "MESSAGE_TYPE", "ACK", FALSE, FALSE, <<>>),
   Raw(TRUE, "MESSAGE_TYPE", "ACK", TRUE, FALSE, <<1>>)}

\* JSON_PARSE_SAFE(raw) || {}
JSON_PARSE_SAFE(raw) ==
  IF raw.valid THEN raw ELSE Raw(TRUE, "none", "undefined", FALSE, FALSE, <<>>)

\* msg.MESSAGE_TYPE (msg.type in the older copy)
MsgType(msg, copy) == IF msg.key = AckKey(copy) THEN msg.type ELSE "undefined"

\* variant: MISSING_FRAMES is iterated as it is
MissingFrames_AsIs(msg) == msg.items

\* Array.isArray(msg.MISSING_FRAMES) ? msg.MISSING_FRAMES : []
MissingFrames(msg) == IF msg.has /\ msg.isArray THEN msg.items ELSE <<>>

\* the second try block of WS.onmessage
OnWsMessage(cn, ws, rid, raw, buf, copy) ==
  LET msg == JSON_PARSE_SAFE(raw)
  IN  IF MsgType(msg, copy) = "ACK"
      THEN Resend(cn, ws, rid, MissingFrames(msg), buf)
      ELSE cn

\* a message arrives on connection c; the environment notes the message and
\* the keys the buffer held
Inbound(c, raw) ==
  /\ conn[c].readyState = 1
  /\ conn[c].h # 0
  /\ EnvEvents < MaxEnvEvents
  /\ env' = [env EXCEPT !.noop = Append(@, <<"MSG", raw, BufKeys(RESEND_BUFFER)>>)]
  /\ conn' = OnWsMessage(conn, WS, start[conn[c].h].rid, raw, RESEND_BUFFER, env.copy)
  /\ UNCHANGED <<FRAME_MS, globals, appRecordingId, recorder, start, tick, stop, hist, opener>>

InboundNext ==
  \/ SessionNext
  \/ \E c \in 1..Len(conn), raw \in IgnoredRaws : Inbound(c, raw)

\* one START call, with messages of any shape arriving on its connection
InboundSpec == SessionInit /\ [][InboundNext]_vars

\* ------------------------------------------------------------ the opener
\* WS_OPEN_WITH_TIMEOUT and, around it, WS_OPEN_WITH_RETRIES.  One call is
\* one record: its arguments, the attempt in progress and the attempts made.
\*   ws       the WebSockets created, one per attempt: readyState, who closed
\*   opened   the flag of the attempt's closure
\*   timer    the attempt's setTimeout is pending
\*   poll     the attempt's setInterval is running
\*   handlers ws.onopen/onmessage/onclose are still the attempt's
\*   evt      the platform's open event: none, pending, delivered or dropped
\*   msg      the first inbound message: none, text or binary
\*   calls    the calls of resolve and reject made on the attempt's promise
\*   now      the time since the attempt, or the backoff wait, began
\*   log      how each attempt settled, and when
\*   waited   the backoff waits made, in order
POLL_MS == 50

\* <<copy, attempts, timeoutMs, backoffMs>>: the stream connection of the
\* current module (two attempts), its preflight (one), the same wrapper
\* with three attempts, and both opens of the older copy, which has no
\* retry wrapper; times are scaled down to a few poll periods
OpenArgs ==
  {<<"CLIENT_APP_VARIABLES", 2, 100, 50>>,
   <<"CLIENT_APP_VARIABLES", 1, 100, 50>>,
   <<"CLIENT_APP_VARIABLES", 3, 50, 100>>,
   <<"CLIENT_AUDIO_STREAM_MASTER", 1, 100, 50>>}

HasPoll(copy) == copy = "CLIENT_APP_VARIABLES"

\* the attempt begins: new WebSocket(url), the poll, the timer, the handlers
Attempt(o, i) ==
  IF ~o.urlOk
  THEN [o EXCEPT !.i = i, !.pc = "attempt", !.calls = <<"reject">>, !.err = "ctor",
                 !.opened = FALSE, !.timer = FALSE, !.poll = FALSE,
                 !.handlers = FALSE, !.evt = "none", !.msg = "none", !.now = 0,
                 !.polled = 0]
  ELSE [o EXCEPT !.i = i, !.pc = "attempt", !.calls = <<>>, !.err = "none",
                 !.ws = Append(@, [readyState |-> 0, closedBy |-> "none"]),
                 !.opened = FALSE, !.timer = TRUE, !.poll = HasPoll(o.copy),
                 !.handlers = TRUE, !.evt = "none", !.msg = "none", !.now = 0,
                 !.polled = 0]

\* finish(ok, val): the first call settles the attempt and takes the timer,
\* the poll and the handlers away; later calls return at once
Finish(o, ok, err) ==
  IF o.opened THEN o
  ELSE [o EXCEPT !.opened = TRUE, !.timer = FALSE, !.poll = FALSE,
                 !.handlers = FALSE,
                 !.calls = Append(@, IF ok THEN "resolve" ELSE "reject"),
                 !.err = IF ok THEN @ ELSE err]

Cur(o) == Len(o.ws)

Close(o, by) ==
  [o EXCEPT !.ws[Cur(o)] =
     IF @.readyState = 3 THEN @ ELSE [readyState |-> 3, closedBy |-> by]]

\* the promise of the attempt is settled by the first call made on it
Settled(o) == o.calls # <<>>

\* the caller (START, or the start of the model) opens a connection
OpenCall(args, urlOk) ==
  /\ opener.pc = "idle"
  /\ opener' = Attempt([pc |-> "idle", copy |-> args[1], attempts |-> args[2],
                        timeoutMs |-> args[3], backoffMs |-> args[4],
                        urlOk |-> urlOk, i |-> 0, ws |-> <<>>, opened |-> FALSE,
                        timer |-> FALSE, poll |-> FALSE, handlers |-> FALSE,
                        evt |-> "none", msg |-> "none", calls |-> <<>>, err |-> "none",
                        now |-> 0, polled |-> 0, log |-> <<>>, waited |-> <<>>],
                       0)
  /\ UNCHANGED <<FRAME_MS, globals, appRecordingId, conn, recorder, start, tick,
                 stop, env, hist>>

OpenerStep(o) ==
  /\ opener' = o
  /\ UNCHANGED <<FRAME_MS, globals, appRecordingId, conn, recorder, start, tick,
                 stop, env, hist>>

InAttempt == opener.pc \in {"attempt", "resolved"} /\ opener.ws # <<>>

\* the platform: the connection is established
SocketOpens ==
  /\ InAttempt
  /\ opener.ws[Cur(opener)].readyState = 0
  /\ OpenerStep([opener EXCEPT !.ws[Cur(opener)].readyState = 1, !.evt = "pending"])

\* the platform delivers the open event: ws.onopen
OnOpen ==
  /\ InAttempt
  /\ opener.evt = "pending"
  /\ opener.ws[Cur(opener)].readyState = 1
  /\ OpenerStep(
       LET o == [opener EXCEPT !.evt = "delivered"]
       IN  IF ~o.handlers THEN o
           ELSE IF HasPoll(o.copy) THEN Finish(o, TRUE, "none")
           ELSE [o EXCEPT !.opened = TRUE, !.timer = FALSE,
                          !.calls = Append(@, "resolve")])

\* the platform never delivers the open event
OnOpenDropped ==
  /\ InAttempt
  /\ opener.evt = "pending"
  /\ OpenerStep([opener EXCEPT !.evt = "dropped"])

\* a first inbound message arrives, text or binary, after the open event was
\* delivered or lost: ws.onmessage, which the older copy does not set
OnMessage(text) ==
  /\ InAttempt
  /\ opener.ws[Cur(opener)].readyState = 1
  /\ opener.msg = "none"
  /\ opener.evt \in {"delivered", "dropped"}
  /\ OpenerStep(
       LET o == [opener EXCEPT !.msg = IF text THEN "text" ELSE "binary"]
       IN  IF o.handlers /\ HasPoll(o.copy) /\ text THEN Finish(o, TRUE, "none")
           ELSE o)

\* the poll's period ended: if (ws && ws.readyState === 1) finish(true, ws)
PollDue(o) ==
  o.pc \in {"attempt", "resolved"} /\ o.poll /\ o.now > o.polled
    /\ o.now % POLL_MS = 0

Poll ==
  /\ PollDue(opener)
  /\ OpenerStep(
       LET o == [opener EXCEPT !.polled = opener.now]
       IN  IF o.ws[Cur(o)].readyState = 1 THEN Finish(o, TRUE, "none") ELSE o)

\* variant: the timeout rejects and leaves the connection as it is
OnTimeout_NoClose(o) ==
  IF HasPoll(o.copy)
  THEN Finish(o, FALSE, "timeout")
  ELSE IF o.opened THEN [o EXCEPT !.timer = FALSE]
  ELSE [o EXCEPT !.timer = FALSE, !.calls = Append(@, "reject"),
                 !.err = IF o.calls = <<>> THEN "timeout" ELSE @]

\* the setTimeout callback: ws.close() and the timeout error
OnTimeout(o) ==
  IF HasPoll(o.copy)
  THEN Finish([Close(o, "opener") EXCEPT !.timer = FALSE], FALSE, "timeout")
  ELSE IF o.opened THEN [o EXCEPT !.timer = FALSE]
  ELSE [Close(o, "opener") EXCEPT !.timer = FALSE, !.calls = Append(@, "reject"),
                                  !.err = IF o.calls = <<>> THEN "timeout" ELSE @]

TimerDue(o) ==
  o.pc \in {"attempt", "resolved"} /\ o.timer /\ o.now >= o.timeoutMs

OpenTimeout ==
  /\ TimerDue(opener)
  /\ OpenerStep(OnTimeout(opener))

\* the platform: the connection fails or the peer closes it: ws.onclose
SocketCloses ==
  /\ InAttempt
  /\ opener.ws[Cur(opener)].readyState \in {0, 1}
  /\ OpenerStep(
       LET o == Close(opener, "peer")
       IN  IF o.handlers /\ HasPoll(o.copy) /\ ~o.opened
           THEN Finish(o, FALSE, "closed")
           ELSE o)

\* variant: the same wait after every failed attempt
BackoffMs_Flat(o) == o.backoffMs

\* setTimeout(r, backoffMs * (i + 1)) after the failed attempt i (from 0)
BackoffMs(o) == o.backoffMs * (o.i + 1)

\* time passes by one poll period; a timer that is due fires first
OpenerClock ==
  /\ \/ /\ opener.pc = "attempt" /\ ~Settled(opener)
     \/ /\ opener.pc = "resolved" /\ opener.now <= opener.timeoutMs
     \/ /\ opener.pc = "backoff" /\ opener.now < BackoffMs(opener)
  /\ ~TimerDue(opener) /\ ~PollDue(opener)
  /\ OpenerStep([opener EXCEPT !.now = @ + POLL_MS])

\* WS_OPEN_WITH_RETRIES resumes after the attempt's promise settled: return
\* the connection, wait before the next attempt, or throw the last error
AttemptSettled ==
  /\ opener.pc = "attempt" /\ Settled(opener)
  /\ OpenerStep(
       LET o == [opener EXCEPT !.log = Append(@, [res |-> opener.calls[1],
                                                  err |-> opener.err,
                                                  at |-> opener.now])]
       IN  IF o.calls[1] = "resolve" THEN [o EXCEPT !.pc = "resolved"]
           ELSE IF o.i < o.attempts - 1 THEN [o EXCEPT !.pc = "backoff", !.now = 0]
           ELSE [o EXCEPT !.pc = "rejected"])

\* the backoff wait of backoffMs * (i + 1) ended: the next attempt
BackoffDone ==
  /\ opener.pc = "backoff"
  /\ opener.now >= BackoffMs(opener)
  /\ OpenerStep(Attempt([opener EXCEPT !.waited = Append(@, opener.now)],
                        opener.i + 1))

OpenerInit ==
  FRAME_MS \in FrameSizes /\ env = EnvInit(MaxTicks) /\ InitCommon

OpenerNext ==
  \/ \E args \in OpenArgs, urlOk \in BOOLEAN : OpenCall(args, urlOk)
  \/ SocketOpens
  \/ OnOpen
  \/ OnOpenDropped
  \/ \E text \in BOOLEAN : OnMessage(text)
  \/ Poll
  \/ OpenTimeout
  \/ SocketCloses
  \/ OpenerClock
  \/ AttemptSettled
  \/ BackoffDone

OpenerSpec == OpenerInit /\ [][OpenerNext]_vars

\* ------------------------------------------------------------ older copy
\* one session of the older copy of the module, the one the record screen
\* imports: the same START, TICK and STOP, its own ACK test
MasterInit ==
  /\ FRAME_MS \in FrameSizes
  /\ env = [EnvInit(MaxTicks) EXCEPT !.maxStarts = 1,
                                     !.copy = "CLIENT_AUDIO_STREAM_MASTER"]
  /\ InitCommon

MasterSpec == MasterInit /\ [][SessionNext]_vars

\* ------------------------------------------------------------ opening alone
\* START and STOP calls up to the armed first tick, in either copy of the
\* module, with every outcome of the permission request, of the preflight
\* and of the stream connection.
Copies == {"CLIENT_APP_VARIABLES", "CLIENT_AUDIO_STREAM_MASTER"}

OpeningInit ==
  /\ FRAME_MS \in FrameSizes
  /\ \E c \in Copies : env = [EnvInit(MaxTicks) EXCEPT !.copy = c]
  /\ InitCommon

OpeningNext ==
  \/ StartNoop
  \/ \E args \in StartArgs, urlOk \in BOOLEAN : StartCall(args, urlOk)
  \/ \E s \in 1..Len(start) : StartHealth(s)
  \/ \E s \in 1..Len(start), o \in {"granted", "denied", "throws"} : StartPerm(s, o)
  \/ \E s \in 1..Len(start), echoOk \in BOOLEAN : StartEcho(s, echoOk)
  \/ \E s \in 1..Len(start), opened \in BOOLEAN : StartOpen(s, opened)
  \/ \E s \in 1..Len(start) : StartPrimePrep(s)
  \/ \E s \in 1..Len(start) : StartPrimeStart(s)
  \/ StopNoop
  \/ StopCall
  \/ \E k \in 1..Len(stop) : StopFinish(k)

OpeningSpec == OpeningInit /\ [][OpeningNext]_vars

\* ------------------------------------------------------------ observations
IsTickFrame(m) == m.MESSAGE_TYPE = "FRAME" /\ m.via = "tick"

\* the FRAME headers the tick loop wrote on connection c, in order
TickFrames(c) == SelectSeq(conn[c].out, IsTickFrame)

Armed == {t \in 1..Len(tick) : tick[t].pc = "armed"}

Running == {t \in 1..Len(tick) : InFlight(tick, t)}

\* ------------------------------------------------------------ claims

\* C1: on each connection the FRAME headers written by the tick loop are
\* numbered "1", "2", "3", ... in the order written: the first is 1 and each
\* later one is the previous plus one, whatever was discarded, failed or
\* abandoned before.
C1_FrameNumbering ==
  \A c \in 1..Len(conn) :
    \A i \in 1..Len(TickFrames(c)) : TickFrames(c)[i].FRAME_NO = JsString(i)

\* a connection with two frames sent after a countdown slice was discarded
C1_Witness ==
  \E c \in 1..Len(conn) :
    /\ Len(TickFrames(c)) >= 2
    /\ start[conn[c].h].beats > 0

\* C2: at most one run of TICK is between its start and the end of its
\* finally block.
C2_OneTickInFlight == Cardinality(Running) <= 1

\* C3: at most one tick timer is pending, and it is the one _nextTimeout
\* names; an ARM_NEXT while it is pending arms nothing.
C3_SingleFlight ==
  /\ Cardinality(Armed) <= 1
  /\ \A t \in Armed : _nextTimeout = t

\* START's ARM_NEXT found the timer of an earlier tick's finally pending:
\* the START call is done and no timer of its own was armed
C3_Witness ==
  \E s \in 1..Len(start) :
    /\ start[s].pc = "done"
    /\ Armed # {}
    /\ \A t \in 1..Len(tick) : tick[t].s # s

\* the START control messages written on any connection
StartMsgs ==
  {<<c, i>> \in (1..Len(conn)) \X (1..3) :
     i <= Len(conn[c].out) /\ conn[c].out[i].MESSAGE_TYPE = "START"}

ActiveRecorders == {r \in 1..Len(recorder) : IsActive(recorder[r])}

\* C4: as long as no STOP was called, whatever START calls were made, there
\* is at most one session: one START call past its guard and not failed, one
\* connection, one START message, one active recorder, one tick timer, and
\* every tick belongs to that call.
C4_OneSession ==
  Len(stop) = 0 =>
    /\ Cardinality({s \in 1..Len(start) : start[s].pc # "failed"}) <= 1
    /\ Len(conn) <= 1
    /\ Cardinality(StartMsgs) <= 1
    /\ Cardinality(ActiveRecorders) <= 1
    /\ Cardinality(Armed) <= 1
    /\ \A t \in 1..Len(tick) : start[tick[t].s].pc = "done"

\* START was called again while the one session was streaming
C4_Witness ==
  /\ Len(stop) = 0
  /\ env.noop = << <<"START", 0>> >>
  /\ Len(conn) = 1 /\ IsOpen(conn, WS)
  /\ Running # {}

\* C5: a STOP call made while not STREAMING changes nothing: no variable of
\* the pipeline, no connection (nothing is sent or closed), no recorder, no
\* timer, no call in progress.
C5_StopIdempotent ==
  [][(~STREAMING /\ Len(env'.noop) > Len(env.noop))
       => UNCHANGED <<globals, appRecordingId, conn, recorder, start, tick, stop>>]_vars

\* STOP was called a second time after a first STOP had run to its end
C5_Witness ==
  /\ env.noop = << <<"STOP", 1>> >>
  /\ stop[1].pc = "done" /\ stop[1].from = "STREAMING"
  /\ ~STREAMING

\* what holds when the STOP call k has just completed
StopPost(k) ==
  /\ ~STREAMING
  /\ Armed = {} /\ _nextTimeout = 0
  /\ _rec = 0 /\ ActiveRecorders = {}
  /\ WS = 0 /\ \A c \in 1..Len(conn) : conn[c].readyState # 1
  /\ RESEND_BUFFER = <<>>
  /\ stop[k].ws # 0
  /\ LET out == conn[stop[k].ws].out
     IN  stop[k].wasOpen <=> out[Len(out)].MESSAGE_TYPE = "STOP"

Completes(k) == stop'[k].pc = "done" /\ (k > Len(stop) \/ stop[k].pc # "done")

\* C6: when a STOP called during STREAMING completes, no timer is pending,
\* no recorder is active, no connection is open or referenced, the buffer
\* is empty, the session is idle, and STOP was the last message written on
\* the closed connection exactly when that connection was still open.
C6_StopPost ==
  [][\A k \in 1..Len(stop') :
       (Completes(k) /\ stop'[k].from = "STREAMING" /\ stop'[k].starts = Len(start'))
         => StopPost(k)']_vars

\* C7: once a tick has ended, the file of the slice it captured has been
\* deleted, by exactly one deleteAsync call.
C7_DeletedOnce ==
  Len(stop) = 0 => \A r \in 1..Len(recorder) :
    (recorder[r].by # 0 /\ tick[recorder[r].by].pc = "done")
      => (recorder[r].file = "deleted" /\ recorder[r].dels = 1)

SameFrame(a, b) ==
  /\ a.MESSAGE_TYPE = b.MESSAGE_TYPE
  /\ a.RECORDING_ID = b.RECORDING_ID
  /\ a.FRAME_NO = b.FRAME_NO
  /\ a.FRAME_DURATION_IN_MS = b.FRAME_DURATION_IN_MS
  /\ a.BYTES_LEN = b.BYTES_LEN

\* C9: a resent frame equals the frame of the same number that the tick
\* loop sent on that connection: the same header fields, the same bytes.
C9_ResendFidelity ==
  \A c \in 1..Len(conn) :
    LET out == conn[c].out
    IN  \A i, j \in 1..Len(out) :
          (/\ out[i].MESSAGE_TYPE = "FRAME" /\ out[i].via = "resend"
           /\ out[j].MESSAGE_TYPE = "FRAME" /\ out[j].via = "tick"
           /\ out[i].FRAME_NO = out[j].FRAME_NO)
          => (SameFrame(out[i], out[j]) /\ out[i + 1].bytes = out[j + 1].bytes)

Distinct(s) == Cardinality({s[i] : i \in 1..Len(s)}) = Len(s)

LastN(s, n) == SubSeq(s, Len(s) - n + 1, Len(s))

\* C8: the buffer never holds more than 128 entries; while the keys put are
\* distinct it holds exactly the latest min(128, N) of the N keys put, in the
\* order they were put, whatever their values and whatever was read between.
C8_BoundedFifo ==
  /\ Len(RESEND_BUFFER) <= RESEND_BUFFER_SIZE
  /\ Distinct(hist) =>
       /\ BufKeys(RESEND_BUFFER) =
            LastN(hist, IF Len(hist) < RESEND_BUFFER_SIZE THEN Len(hist)
                        ELSE RESEND_BUFFER_SIZE)
       /\ Len(hist) > RESEND_BUFFER_SIZE => Len(RESEND_BUFFER) = RESEND_BUFFER_SIZE

\* more than 128 distinct keys were put, not in key order, and a get found one
C8_Witness ==
  /\ Len(hist) >= RESEND_BUFFER_SIZE + 2
  /\ env.pattern \in {"zigzag", "down"}
  /\ Distinct(hist)
  /\ env.got.found
  /\ RESEND_BUFFER[1][1] = hist[Len(hist) - RESEND_BUFFER_SIZE + 1]

\* the slices read and discarded so far: files deleted, frames not sent
Discarded ==
  Cardinality({r \in 1..Len(recorder) : recorder[r].dels > 0})
    - IF Len(conn) = 0 THEN 0 ELSE Len(TickFrames(1))

\* ceil((B * 60000 / R) / F) over the rationals, R floored at 1 as the code does
CeilSlices(B, R, F) == CeilDiv(B * 60000, Max(1, R) * F)

\* C10: in a session where every capture succeeds, never more slices are
\* discarded than the countdown holds, and once the first frame is on the wire
\* the slices discarded before it number ceil(countdownMs / FRAME_MS): a
\* partial last slice is discarded whole.  That is ceil((B * 60000 / R) / F)
\* within one slice, and exactly so when B * 60000 / R is a whole number of
\* milliseconds.  The first frame is FRAME_NO "1"; B = 4, R = 60, F = 250
\* discards 16 slices.
C10_CountdownDiscards ==
  \A s \in 1..Len(start) :
    LET B == start[s].beats
        R == start[s].bpm
        ms == CountdownMs(B, R)
        n == CeilDiv(ms, FRAME_MS)
        sent == IF Len(conn) = 0 THEN <<>> ELSE TickFrames(1)
    IN  /\ Discarded <= n
        /\ Len(sent) >= 1 =>
             /\ Discarded = n
             /\ sent[1].FRAME_NO = JsString(1)
             /\ Discarded - CeilSlices(B, R, FRAME_MS) \in {-1, 0, 1}
             /\ (B * 60000) % Max(1, R) = 0 => Discarded = CeilSlices(B, R, FRAME_MS)
             /\ (B = 4 /\ R = 60 /\ FRAME_MS = 250) => Discarded = 16

\* B = 4, R = 60, F = 250: 17 recorders stopped, the 17th slice sent as frame 1
C10_Witness ==
  /\ Len(start) = 1 /\ start[1].beats = 4 /\ start[1].bpm = 60 /\ FRAME_MS = 250
  /\ Len(conn) = 1 /\ Len(TickFrames(1)) = 1
  /\ Discarded = 16
  /\ recorder[17].dels = 1

\* the FRAME headers and binary payloads written on connection c
FrameTraffic(c) ==
  IF c = 0 THEN <<>>
  ELSE SelectSeq(conn[c].out, LAMBDA m : m.MESSAGE_TYPE \in {"FRAME", "BIN"})

\* C11: while a streaming session is in its countdown (the boundary is not
\* reached and countdown time remains) nothing of a slice is buffered or on
\* the wire: the buffer is empty and the connection carries no FRAME header
\* and no binary payload.  Stated for the states in which no STOP call is
\* still awaiting.
C11_CountdownSilent ==
  (/\ STREAMING /\ IsOpen(conn, WS) /\ ~BOUNDARY_SENT /\ COUNTDOWN_REMAINING_MS > 0
   /\ \A k \in 1..Len(stop) : stop[k].pc = "done")
    => (RESEND_BUFFER = <<>> /\ FrameTraffic(WS) = <<>>)

\* C12: while the session is STREAMING and STOP was never called, once the
\* loop has been started it never halts: a tick timer is pending or a tick
\* is in flight (and will reschedule), whatever the outcome of the ticks
\* before, a connection found closed included.
C12_LoopNeverHalts ==
  (Len(stop) = 0 /\ STREAMING /\ \E s \in 1..Len(start) : start[s].pc = "done")
    => (Armed # {} \/ Running # {})

\* what the START call s has made: connections, recorders, tick timers
ConnsOf(s) == {c \in 1..Len(conn) : conn[c].h = s}

TicksOf(s) == {t \in 1..Len(tick) : tick[t].s = s}

\* C15: a START call whose preflight failed does not give up because of it:
\* it goes on to the stream connection.
C15_EchoBestEffort ==
  \A s \in 1..Len(start) : start[s].echo = "failed" => start[s].fail # "echo"

\* nothing was made by the START call s
NothingOf(s) == ConnsOf(s) = {} /\ TicksOf(s) = {} /\ start[s].rec = 0

\* C13: a START call whose stream connection could not be opened ends with
\* STREAMING false, and it has and will have made nothing: no connection (so
\* no START message), no recorder, no tick timer.  When no STOP was called
\* before, nothing at all is left: no connection, no recorder, no timer.
C13_OpenFailureIdle ==
  [][\A s \in 1..Len(start) :
       /\ start'[s].fail = "open" => NothingOf(s)'
       /\ (start[s].pc = "open" /\ start'[s].fail = "open") =>
            /\ ~STREAMING'
            /\ Len(stop) = 0 =>
                 /\ Len(conn') = 0 /\ WS' = 0
                 /\ Len(recorder') = 0 /\ _rec' = 0
                 /\ Len(tick') = 0 /\ _nextTimeout' = 0]_vars

\* the preflight failed, then the stream connection failed: IDLE, nothing left
C13_Witness ==
  \E s \in 1..Len(start) :
    /\ start[s].fail = "open" /\ start[s].echo = "failed"
    /\ ~STREAMING /\ Len(stop) = 0
    /\ Len(conn) = 0 /\ Len(recorder) = 0 /\ Len(tick) = 0

\* C14: once the microphone permission was denied, no session comes about:
\* no connection is opened, no START message sent, no recorder made, no
\* tick timer armed.
C14_PermissionDenied ==
  env.mic = "denied" =>
    /\ Len(conn) = 0 /\ StartMsgs = {}
    /\ Len(recorder) = 0
    /\ Len(tick) = 0

\* C16: no START call ends by throwing: whatever fails, the call returns.
C16_StartNeverThrows == \A s \in 1..Len(start) : start[s].pc # "threw"

\* the ticks that were in their capture wait when a STOP was called
StoppedInWait == UNION {stop[k].waiting : k \in 1..Len(stop)}

\* C17: a tick that was in its capture wait when STOP was called ends as
\* soon as the wait is over, and that step captures nothing (no recorder is
\* stopped, no artifact comes about), buffers nothing, sends nothing and
\* leaves the frame counter and the countdown alone; the tick never owns
\* an artifact.
C17_AbandonedInWait ==
  [][\A t \in StoppedInWait :
       /\ (tick[t].pc = "wait" /\ tick'[t].pc # "wait") =>
            /\ tick'[t].pc = "done"
            /\ UNCHANGED <<recorder, RESEND_BUFFER, conn, FRAME_NO,
                           COUNTDOWN_REMAINING_MS, BOUNDARY_SENT>>
       /\ tick'[t].pc \in {"wait", "done"}
       /\ \A r \in 1..Len(recorder') : recorder'[r].by # t]_vars

\* STOP came during the wait of a tick, a new session is streaming, and the
\* tick has ended
C17_Witness ==
  \E t \in StoppedInWait :
    /\ tick[t].pc = "done"
    /\ STREAMING /\ IsOpen(conn, WS) /\ Len(start) = 2 /\ _rec # 0

\* the session is idle: not STREAMING, no connection, no recorder reference,
\* no timer, nothing buffered
Idle ==
  /\ ~STREAMING /\ WS = 0 /\ _rec = 0 /\ _nextTimeout = 0 /\ Armed = {}
  /\ RESEND_BUFFER = <<>>

\* where the k-th STOP call stands; "none" before it is made
StopPc(k) == IF k <= Len(stop) THEN stop[k].pc ELSE "none"

\* C18: every STOP call runs to its end, a refused stopAndUnloadAsync
\* included, and a STOP called on a streaming session, whatever its tick was
\* doing, leaves the session idle when it ends.
C18_StopCompletes ==
  /\ \A k \in 1..MaxStops : (StopPc(k) = "stopping") ~> (StopPc(k) = "done")
  /\ [][\A k \in 1..Len(stop') :
          (Completes(k) /\ stop'[k].from = "STREAMING") => Idle']_vars

\* STOP completed although its stopAndUnloadAsync was refused: the tick in
\* flight had stopped the recorder already
C18_Witness ==
  /\ Len(stop) >= 1 /\ stop[1].pc = "done" /\ stop[1].res = "err"
  /\ recorder[stop[1].rec].st = "stopped" /\ recorder[stop[1].rec].by # 0
  /\ stop[1].from = "STREAMING" /\ Idle

FrameNos(ws) ==
  LET hs == SelectSeq(ws, LAMBDA m : m.MESSAGE_TYPE = "FRAME")
  IN  [i \in 1..Len(hs) |-> hs[i].FRAME_NO]

\* the numbers an ACK listing `missing` asks for and the buffer still holds
Asked(missing) ==
  LET held == SelectSeq(missing, LAMBDA m : BufHas(RESEND_BUFFER, m))
  IN  [i \in 1..Len(held) |-> JsString(held[i])]

\* The FRAME headers one step adds to connection c.  With an inbound ACK
\* they are resends: the numbers it lists that the buffer holds, once per
\* listing and in list order, on the streaming connection only.  Without
\* one there is at most one, it is the tick loop's, and the tick loop has
\* not written its number on c before.
ResendOnlyOnAck(c) ==
  LET was == IF c <= Len(conn) THEN conn[c].out ELSE <<>>
      added == SelectSeq(SubSeq(conn'[c].out, Len(was) + 1, Len(conn'[c].out)),
                         LAMBDA m : m.MESSAGE_TYPE = "FRAME")
      before == FrameNos(SelectSeq(was, IsTickFrame))
  IN  IF env'.acks # env.acks
      THEN /\ \E missing \in MissingLists :
                FrameNos(added) =
                  IF c = WS /\ IsOpen(conn, WS) THEN Asked(missing) ELSE <<>>
           /\ \A i \in 1..Len(added) : added[i].via = "resend"
      ELSE /\ Len(added) <= 1
           /\ \A i \in 1..Len(added) :
                /\ added[i].via = "tick"
                /\ \A j \in 1..Len(before) : before[j] # added[i].FRAME_NO

\* C20: a frame is written again only in answer to an inbound ACK that lists
\* its number, once per listing; no other step of the sender (tick, timer,
\* failure path, START, STOP) writes a frame the tick loop wrote before.
C20_ReceiverDriven == [][\A c \in 1..Len(conn') : ResendOnlyOnAck(c)]_vars

\* both frames of a session were written again, in the order the ACK listed
\* them
C20_Witness ==
  \E c \in 1..Len(conn) :
    /\ env.acks = 1
    /\ FrameNos(conn[c].out) = <<JsString(1), JsString(2), JsString(2), JsString(1)>>

\* what the peer receives of a written message: its kind and content
Wire(m) ==
  <<m.MESSAGE_TYPE, m.FRAME_NO, m.FRAME_DURATION_IN_MS, m.BYTES_LEN, m.bytes>>

\* the writes an ACK listing `missing` asks for: for each listed number the
\* buffer holds, in list order, the header of the stored entry, then its bytes
AskedWrites(missing) ==
  LET held == SelectSeq(missing, LAMBDA m : BufHas(RESEND_BUFFER, m))
      E(i) == RESEND_BUFFER_GET(RESEND_BUFFER, held[(i + 1) \div 2])
  IN  [i \in 1..(2 * Len(held)) |->
         IF i % 2 = 1
         THEN <<"FRAME", JsString(held[(i + 1) \div 2]),
                E(i).header.FRAME_DURATION_IN_MS, Len(E(i).bytes), <<>> >>
         ELSE <<"BIN", <<>>, 0, 0, E(i).bytes>>]

\* the writes a step adds to connection c, as the peer receives them
AddedWrites(c) ==
  LET n == IF c <= Len(conn) THEN Len(conn[c].out) ELSE 0
      new == SubSeq(conn'[c].out, n + 1, Len(conn'[c].out))
  IN  [i \in 1..Len(new) |-> Wire(new[i])]

\* C21: while the session is streaming on an open connection, an inbound ACK
\* makes the sender write on that connection, for each listed number the
\* buffer holds and in list order, the header and then the stored bytes, and
\* nothing else.
C21_AckResends ==
  [][(env'.acks # env.acks /\ STREAMING /\ IsOpen(conn, WS))
       => \E missing \in MissingLists : AddedWrites(WS) = AskedWrites(missing)]_vars

\* the FRAME numbers a step writes on connection c
AddedNos(c) ==
  LET n == IF c <= Len(conn) THEN Len(conn[c].out) ELSE 0
  IN  FrameNos(SubSeq(conn'[c].out, n + 1, Len(conn'[c].out)))

\* C22: an inbound ACK writes no frame for a listed number the buffer does
\* not hold, still writes every listed number it holds (those listed after a
\* miss included), and changes nothing but the connection's writes: no
\* counter, flag, timer, recorder or call is touched.
C22_MissSkipped ==
  [][env'.acks # env.acks =>
       /\ \E missing \in MissingLists :
            \A c \in 1..Len(conn') :
              /\ \A i \in 1..Len(AddedNos(c)) :
                   \E j \in 1..Len(missing) :
                     /\ BufHas(RESEND_BUFFER, missing[j])
                     /\ AddedNos(c)[i] = JsString(missing[j])
              /\ (c = WS /\ IsOpen(conn, WS)) =>
                   \A j \in 1..Len(missing) :
                     BufHas(RESEND_BUFFER, missing[j]) =>
                       \E i \in 1..Len(AddedNos(c)) :
                         AddedNos(c)[i] = JsString(missing[j])
       /\ UNCHANGED <<globals, appRecordingId, recorder, start, tick, stop>>
       /\ \A c \in 1..Len(conn) : conn'[c].readyState = conn[c].readyState]_vars

\* the session sent frame 1 only, the ACK listed 2 and then 1: nothing was
\* written for 2, frame 1 was written again, and the session streams on
C22_Witness ==
  /\ env.acks = 1 /\ Len(start) = 1 /\ Len(stop) = 0
  /\ STREAMING /\ IsOpen(conn, WS)
  /\ ~BufHas(RESEND_BUFFER, 2)
  /\ FrameNos(conn[WS].out) = <<JsString(1), JsString(1)>>

\* the attempts of an opener call whose constructor worked have one socket
\* each, in order
SocketOf(k) == opener.ws[k]

\* C23: an attempt of the opener is never pending past timeoutMs, also when
\* its connection was closed or failed before it opened; an attempt that no
\* success signal settled in time fails at timeoutMs with the timeout error
\* and its connection closed, and the opener itself closes a connection only
\* then.
C23_OpenTimeout ==
  opener.pc # "idle" =>
    /\ (opener.pc = "attempt" /\ ~Settled(opener)) => opener.now <= opener.timeoutMs
    /\ \A k \in 1..Len(opener.log) :
         LET a == opener.log[k]
         IN  /\ a.at <= opener.timeoutMs
             /\ ~opener.urlOk => (a.res = "reject" /\ a.err = "ctor" /\ a.at = 0)
             /\ opener.urlOk =>
                  /\ (a.res = "reject" /\ SocketOf(k).closedBy # "peer")
                       => a.err = "timeout"
                  /\ a.err = "timeout" =>
                       /\ a.res = "reject" /\ a.at = opener.timeoutMs
                       /\ SocketOf(k).readyState = 3
                  /\ SocketOf(k).closedBy = "opener" => a.err = "timeout"

\* an attempt whose connection never opened failed at the timeout, and the
\* opener closed the connection that was still connecting
C23_Witness ==
  /\ opener.pc = "rejected"
  /\ opener.log[1].err = "timeout" /\ opener.log[1].at = opener.timeoutMs
  /\ opener.ws[1].closedBy = "opener"
  /\ opener.evt = "none"

\* the open event or a first text message reaches an attempt not yet settled
SuccessSignal ==
  /\ opener.pc = "attempt" /\ ~Settled(opener)
  /\ \/ opener.evt = "pending" /\ opener'.evt = "delivered"
     \/ opener.msg = "none" /\ opener'.msg = "text"

\* C24: the open event and a first inbound text message each settle a
\* pending attempt with success, whichever comes first and also when the
\* other never comes; an attempt is settled by one call only, and once it
\* succeeded no timeout fails it and the opener does not close its connection.
C24_FirstSignalWins ==
  [][/\ SuccessSignal => opener'.calls = <<"resolve">>
     /\ opener'.pc # "idle" =>
          /\ Len(opener'.calls) <= 1
          /\ opener'.pc = "resolved" =>
               /\ opener'.calls = <<"resolve">>
               /\ opener'.ws[Len(opener'.ws)].closedBy # "opener"
               /\ ~opener'.timer]_vars

\* C25: a call of the opener with n attempts makes at most n, each one after
\* the one before it failed; it returns at the first attempt that succeeds,
\* waits backoffMs * k after the k-th failed attempt when another follows,
\* and throws only when all n attempts have failed.
C25_Retries ==
  opener.pc # "idle" =>
    LET log == opener.log
        n == opener.attempts
        begun == opener.i + 1
    IN  /\ begun <= n /\ Len(log) <= begun
        /\ opener.urlOk => Len(opener.ws) = begun
        /\ \A k \in 1..Len(log) : log[k].res = "resolve" => k = Len(log)
        /\ \A k \in 1..(begun - 1) : k <= Len(log) /\ log[k].res = "reject"
        /\ opener.waited = [k \in 1..(begun - 1) |-> opener.backoffMs * k]
        /\ opener.pc = "resolved" =>
             (Len(log) = begun /\ log[begun].res = "resolve")
        /\ opener.pc = "rejected" =>
             (Len(log) = n /\ \A k \in 1..n : log[k].res = "reject")
        /\ opener.pc = "backoff" => (Len(log) = begun /\ begun < n)

\* three attempts: two timed out, each followed by its wait, the third
\* succeeded and no fourth was made
C25_Witness ==
  /\ opener.pc = "resolved" /\ opener.attempts = 3
  /\ Len(opener.log) = 3
  /\ opener.log[1].err = "timeout" /\ opener.log[2].err = "timeout"
  /\ opener.waited = <<opener.backoffMs, 2 * opener.backoffMs>>
  /\ opener.backoffMs > POLL_MS

SessionState ==
  IF \E k \in 1..Len(stop) : stop[k].pc = "stopping" THEN "STOPPING"
  ELSE IF ~STREAMING THEN "IDLE"
  ELSE CalledIn

\* a START call gives up in this step: permission, identifier or connection
HardFailure ==
  \E s \in 1..Len(start) : start[s].pc # "failed" /\ start'[s].pc = "failed"

\* C27: the session state changes only from IDLE to OPENING, from OPENING to
\* STREAMING, from STREAMING to STOPPING (or, by a STOP call that has nothing
\* to await, through STOPPING to IDLE), from STOPPING to IDLE, and from
\* OPENING to IDLE when START fails hard; a STOP called while OPENING causes
\* no other change.
C27_StateMachine ==
  [][\/ SessionState' = SessionState
     \/ SessionState = "IDLE" /\ SessionState' = "OPENING"
     \/ SessionState = "OPENING" /\ SessionState' = "STREAMING"
     \/ SessionState = "STREAMING" /\ SessionState' = "STOPPING"
     \/ SessionState = "STREAMING" /\ SessionState' = "IDLE" /\ Len(stop') > Len(stop)
     \/ SessionState = "STOPPING" /\ SessionState' = "IDLE"
     \/ SessionState = "OPENING" /\ SessionState' = "IDLE" /\ HardFailure]_vars

\* the streaming connection is there and no longer open
WsClosed == WS # 0 /\ ~IsOpen(conn, WS)

\* C28: nothing is ever written on a connection that is not open; a tick
\* that reaches its send with the streaming connection closed goes on to its
\* next step as after any send; and as long as no STOP was called the
\* session with a closed connection stays STREAMING.
C28_ClosedIsSilent ==
  [][/\ \A c \in 1..Len(conn) :
          conn[c].readyState # 1 => conn'[c].out = conn[c].out
     /\ \A t \in 1..Len(tick) :
          (WsClosed /\ tick[t].pc = "read" /\ tick'[t].pc # "read"
             /\ env'.readFaults = env.readFaults)
            => tick'[t].pc = "del"
     /\ (WsClosed /\ STREAMING /\ Len(stop') = 0) => STREAMING']_vars

\* the connection dropped during the first capture: frame 1 was numbered and
\* buffered, nothing was written, the tick ended, the session is STREAMING
C28_Witness ==
  /\ STREAMING /\ WsClosed /\ Len(stop) = 0 /\ env.drops = 1
  /\ FRAME_NO = 2 /\ BufHas(RESEND_BUFFER, 1)
  /\ FrameNos(conn[WS].out) = <<>>
  /\ \E t \in 1..Len(tick) : tick[t].pc = "done"

\* the RECORDING_ID members of the text messages written on connection c
IdsOn(c) ==
  {conn[c].out[i].RECORDING_ID :
     i \in {j \in 1..Len(conn[c].out) : conn[c].out[j].MESSAGE_TYPE # "BIN"}}

\* C29: the START message, the FRAME headers and the STOP message written on
\* one connection all carry the same RECORDING_ID.
C29_OneId == \A c \in 1..Len(conn) : Cardinality(IdsOn(c)) <= 1

\* the step in which START sets the counters of its session
StartSetsCounters ==
  \E s \in 1..Len(start) : start[s].pc = "open" /\ start'[s].pc = "prime_prep"

\* a tick's captured slice was read and classified in this step
SliceClassified ==
  \E t \in 1..Len(tick) :
    tick[t].pc = "read" /\ tick'[t].pc = "del" /\ env'.readFaults = env.readFaults

\* C30: apart from the step in which START sets the counters, BOUNDARY_SENT
\* never goes from true to false and COUNTDOWN_REMAINING_MS never grows; and
\* a slice read while BOUNDARY_SENT is true is numbered and buffered as a
\* real frame, the countdown untouched.
C30_BoundaryOneWay ==
  [][~StartSetsCounters =>
       /\ BOUNDARY_SENT => BOUNDARY_SENT'
       /\ COUNTDOWN_REMAINING_MS' <= COUNTDOWN_REMAINING_MS
       /\ (BOUNDARY_SENT /\ SliceClassified)
            => /\ FRAME_NO' = FRAME_NO + 1
               /\ BufHas(RESEND_BUFFER', FRAME_NO)
               /\ COUNTDOWN_REMAINING_MS' = COUNTDOWN_REMAINING_MS]_vars

\* a session that began with a countdown has crossed the boundary and has
\* since numbered and buffered two real frames
C30_Witness ==
  /\ start # <<>> /\ CountdownMs(start[Len(start)].beats, start[Len(start)].bpm) > 0
  /\ Len(start) = 1 /\ STREAMING
  /\ BOUNDARY_SENT /\ COUNTDOWN_REMAINING_MS <= 0
  /\ FRAME_NO = 3 /\ BufHas(RESEND_BUFFER, 1) /\ BufHas(RESEND_BUFFER, 2)

\* the entries of buffer a whose keys buffer b holds too, in a's order
KeptIn(a, b) == SelectSeq(a, LAMBDA p : BufHas(b, p[1]))

\* C31: in every step the entries whose keys are in the buffer before and
\* after are the same entries in the same order, and a step that handles an
\* ACK leaves the buffer as it was.
C31_EntriesImmutable ==
  [][/\ KeptIn(RESEND_BUFFER, RESEND_BUFFER') = KeptIn(RESEND_BUFFER', RESEND_BUFFER)
     /\ env'.acks # env.acks => RESEND_BUFFER' = RESEND_BUFFER]_vars

\* the kinds of the messages written on connection c, in order
KindsOn(c) == [i \in 1..Len(conn[c].out) |-> conn[c].out[i].MESSAGE_TYPE]

\* C32: on every connection the first message written is START, START comes
\* before every FRAME, and nothing but control messages follows a STOP.
C32_StartFirstStopLast ==
  \A c \in 1..Len(conn) :
    LET k == KindsOn(c)
    IN  /\ k # <<>> => k[1] = "START"
        /\ \A i \in 1..Len(k) : k[i] = "FRAME" => \E j \in 1..(i - 1) : k[j] = "START"
        /\ \A i, j \in 1..Len(k) :
             (k[i] = "STOP" /\ i < j) => k[j] \notin {"FRAME", "BIN"}

\* a connection carried START, frames and then STOP, and is closed
C32_Witness ==
  \E c \in 1..Len(conn) :
    LET k == KindsOn(c)
    IN  /\ Len(k) >= 6 /\ k[1] = "START" /\ k[Len(k)] = "STOP"
        /\ k[2] = "FRAME" /\ k[3] = "BIN" /\ k[Len(k) - 1] = "BIN"
        /\ conn[c].readyState = 3

\* the k-th STOP call was made while the START call before it was OPENING,
\* both calls have returned and nothing was called since
InterruptedStart(k) ==
  /\ stop[k].from = "OPENING" /\ stop[k].pc = "done"
  /\ Len(stop) = k /\ Len(start) = stop[k].starts
  /\ start[stop[k].starts].pc \in {"done", "failed"}

\* C33: after a STOP called while START was OPENING, once both calls have
\* returned the session is idle: STREAMING is down, no connection is open,
\* no recorder is active, no timer is armed and no tick runs.
C33_StopWhileOpening ==
  \A k \in 1..Len(stop) :
    InterruptedStart(k) =>
      /\ Idle
      /\ \A c \in 1..Len(conn) : conn[c].readyState # 1
      /\ ActiveRecorders = {}
      /\ \A t \in 1..Len(tick) : ~InFlight(tick, t)

\* a STOP called on a streaming session has finished and START was not
\* called since
StoppedSince(k) ==
  /\ stop[k].from = "STREAMING" /\ stop[k].pc = "done"
  /\ Len(stop) = k /\ Len(start) = stop[k].starts

\* C34: from the end of a STOP called on a streaming session until the next
\* START call, no step puts anything into the resend buffer and no step
\* advances FRAME_NO.
C34_NoWriteAfterStop ==
  [][\A k \in 1..Len(stop) :
       (StoppedSince(k) /\ Len(start') = Len(start))
         => RESEND_BUFFER' = <<>> /\ FRAME_NO' = FRAME_NO]_vars

\* a STOP was called on the streaming session of the s-th START call
Stopped(s) ==
  \E k \in 1..Len(stop) : stop[k].from = "STREAMING" /\ stop[k].starts = s

\* C35: no step arms a tick for a session that was stopped, and every FRAME
\* header on a connection carries the RECORDING_ID of the START call that
\* opened the connection.
C35_NoStaleTick ==
  [][/\ \A t \in (Len(tick) + 1)..Len(tick') : ~Stopped(tick'[t].s)
     /\ \A c \in 1..Len(conn') : \A i \in 1..Len(conn'[c].out) :
          conn'[c].out[i].MESSAGE_TYPE = "FRAME"
            => conn'[c].out[i].RECORDING_ID = start'[conn'[c].h].rid]_vars

\* the frame numbers max(1, FRAME_NO - 128) .. FRAME_NO - 1 in ascending order
LastAssigned ==
  LET lo == Max(1, FRAME_NO - RESEND_BUFFER_SIZE)
  IN  [i \in 1..(FRAME_NO - lo) |-> lo + i - 1]

\* C36: while a session is streaming (the last START call has armed its tick
\* loop and STREAMING is set) the keys of the resend buffer are the last
\* min(128, FRAME_NO - 1) frame numbers assigned, oldest first.
C36_KeysAreLastAssigned ==
  (STREAMING /\ CalledIn = "STREAMING") => BufKeys(RESEND_BUFFER) = LastAssigned

\* the step handles an inbound message that is not a well-formed ACK
IgnoredArrives ==
  /\ Len(env'.noop) = Len(env.noop) + 1
  /\ env'.noop[Len(env'.noop)][1] = "MSG"

\* C37: a step that handles text that is not JSON, a message that is not an
\* ACK, or an ACK whose MISSING_FRAMES is absent or not a list writes nothing
\* on any connection and leaves FRAME_NO, the countdown, BOUNDARY_SENT, the
\* resend buffer, the recorders and the timer as they were.
C37_IgnoredMessages ==
  [][IgnoredArrives =>
       UNCHANGED <<globals, conn, recorder, start, tick, stop>>]_vars

\* an ACK whose MISSING_FRAMES is the string "1" arrived while frame 1 was
\* buffered and the connection open, and nothing was ever resent
C37_Witness ==
  /\ \E i \in 1..Len(env.noop) :
       /\ env.noop[i][1] = "MSG"
       /\ env.noop[i][2].type = "ACK" /\ env.noop[i][2].key = "MESSAGE_TYPE"
       /\ env.noop[i][2].has /\ ~env.noop[i][2].isArray
       /\ env.noop[i][3] = <<1>>
  /\ \A c \in 1..Len(conn) : \A j \in 1..Len(conn[c].out) :
       conn[c].out[j].via # "resend"
  /\ STREAMING /\ IsOpen(conn, WS)

\* the ticks that are inside RECORD_MICRO_CHUNK, past its busy test and
\* before its finally
InChunk ==
  {t \in 1..Len(tick) :
     tick[t].pc \in {"prep0", "start0", "wait", "stopping", "prep", "start"}}

\* C38: _isChunking is set exactly when one RECORD_MICRO_CHUNK call is in
\* progress, and never are two in progress.
C38_BusyGuard ==
  /\ Cardinality(InChunk) <= 1
  /\ _isChunking <=> InChunk # {}

====
